---- MODULE Spec2Model ----
(***************************************************************************)
(* Model of the PDFProcessor pipeline of blackout-breaker:                 *)
(*   detectRedactions -> mergeRedactions -> findTextInArea -> rendering.   *)
(* Raster coordinates are integers (pixels).                               *)
(***************************************************************************)
EXTENDS Integers, Sequences, FiniteSets, TLC

VARIABLES
    mpc,          \* position of the merge run: "start", "merged", "permuted", "again"
    cands,        \* candidate list handed to mergeRedactions
    perm,         \* a reordering of cands
    merged,       \* mergeRedactions(cands)
    groups,       \* for each output box of merged, the input indices it absorbed
    mergedPerm,   \* mergeRedactions(perm)
    mergedTwice,  \* mergeRedactions(merged)
    tpc,          \* position of a page's processPage: "idle", "rendered",
                  \* "assoc", "done"
    scale,        \* this.scale, in quarters (6 stands for 1.5)
    viewport,     \* the page's viewport: its scale and transform
    textItems,    \* textContent.items of the page
    pageRedactions,       \* the page's regions, each with its hiddenText
    assignedTextIndices,  \* indices of the text items given to some region
    rIdx,         \* index of the next region of the "for (const redaction ...)" loop
    rendered,     \* which renderers have run: "export", "layer"
    drawnExport,  \* indices of the items drawn by renderTextForExport
    drawnLayer,   \* indices of the items drawn by renderTextLayerForRedactions
    spc,          \* position of a scan: "idle", "scan", "detected"
    imageData,    \* the page's raster: width, height, data (one RGB triple a pixel)
    block,        \* the black rectangle painted into imageData: x, y, w, h in pixels
    scanned,      \* the candidates pushed by the scan, before merging
    visited,      \* the coordinates the scan marked visited
    detected,     \* what detectRedactions returned
    scanError,    \* the error detectRedactions threw, "none" when it returned
    numPages,     \* for each file, the numPages of the document parsed from it
    failing,      \* the pages (file, number) whose processPage fails
    failStep,     \* where it fails: "render" (page.render rejects) or "tail"
                  \* (getTextContent rejects or the code after it throws)
    lpc,          \* for each loadPdf call, its position: "idle", "reading",
                  \* "parsing", "getPage", "render", "text", "resolved",
                  \* "rejected", "done"
    callFile,     \* for each call, its file parameter
    callI,        \* for each call, the loop variable i
    callPage,     \* for each call, the page object it got: its file and number
    callViewport, \* for each call, the scale of the viewport of processPage
    callResult,   \* for each call, the object it resolved with
    thisFileName,     \* this.fileName
    thisPdfData,      \* this.pdfData, as the file it was read from
    thisCurrentPdf,   \* this.currentPdf, as the file it was parsed from
    thisPages,        \* the array this.pages refers to
    thisRedactions,   \* the array this.redactions refers to
    pageArrays,       \* the contents of the arrays this.pages has referred to
    redactionArrays,  \* the contents of the arrays this.redactions has referred to
    callKind,     \* for each call, the handler that made it: "upload", "zoom"
    callDoc,      \* for each call made by zoom, the id of its doc
    documents,    \* the documents Map: id -> docData
    currentDocId, \* this.currentDocId, 0 for null
    saved,        \* the PDFs handed to pdf.save: name and pages
    originalCanvas,   \* the pixels of the page's originalCanvas
    fixedCanvas,      \* the pixels of the page's fixedCanvas
    jpc,          \* position of the viewer: "idle", "loaded", "shown"
    shownDoc,     \* the document on display: its pages and its redactions
    highlights,   \* the .redaction-highlight elements of the original pane
    diffItems,    \* the "Jump to" buttons of the diff view, in order
    active,       \* the highlights that carry the class "active"
    highlightedRedaction,  \* this.highlightedRedaction, <<>> for null
    clicked       \* the "Jump to" button clicked last, 0 before any click

mergeVars == <<mpc, cands, perm, merged, groups, mergedPerm, mergedTwice>>

textVars == <<tpc, scale, viewport, textItems, pageRedactions,
              assignedTextIndices, rIdx, rendered, drawnExport, drawnLayer>>

scanVars == <<spc, imageData, block, scanned, visited, detected, scanError>>

loadVars == <<numPages, failing, failStep, lpc, callFile, callI, callPage,
              callViewport,
              callResult, thisFileName, thisPdfData, thisCurrentPdf, thisPages,
              thisRedactions, pageArrays, redactionArrays>>

appVars == <<callKind, callDoc, documents, currentDocId, saved>>

pageVars == <<originalCanvas, fixedCanvas>>

jumpVars == <<jpc, shownDoc, highlights, diffItems, active,
              highlightedRedaction, clicked>>

vars == <<mergeVars, textVars, scanVars, loadVars, appVars, pageVars, jumpVars>>

----------------------------------------------------------------------------
(* Values of the parts of the state a run does not use *)

\* this.scale after construction: 1.5, in quarters
InitialScale == 6

MergeIdle ==
    /\ mpc = "idle"
    /\ cands = <<>>
    /\ perm = <<>>
    /\ merged = <<>>
    /\ groups = <<>>
    /\ mergedPerm = <<>>
    /\ mergedTwice = <<>>

TextIdle ==
    /\ tpc = "idle"
    /\ scale = InitialScale
    /\ viewport = <<>>
    /\ textItems = <<>>
    /\ pageRedactions = <<>>
    /\ assignedTextIndices = {}
    /\ rIdx = 0
    /\ rendered = {}
    /\ drawnExport = {}
    /\ drawnLayer = {}

ScanIdle ==
    /\ spc = "idle"
    /\ imageData = [width |-> 0, height |-> 0, data |-> <<>>]
    /\ block = <<>>
    /\ scanned = <<>>
    /\ visited = {}
    /\ detected = <<>>
    /\ scanError = "none"

\* the loadPdf calls of a run
MaxCalls == 2

Calls == 1..MaxCalls

\* file names, ".pdf" being one token of the name
Files == { <<"a", ".pdf">>, <<"b", ".pdf">> }

\* '' and null
NoFile == <<>>

\* arrays are told apart by who made them: 0 is the array the processor
\* holds before the calls of the run (the constructor's "[]"), c the "[]"
\* assigned by call c
ArrayIds == 0..MaxCalls

NoResult == [numPages |-> 0, pages |-> 0, redactions |-> 0]

\* the PDFProcessor after its constructor
Constructed ==
    /\ thisFileName = NoFile
    /\ thisPdfData = NoFile
    /\ thisCurrentPdf = NoFile
    /\ thisPages = 0
    /\ thisRedactions = 0
    /\ pageArrays = [a \in ArrayIds |-> <<>>]
    /\ redactionArrays = [a \in ArrayIds |-> <<>>]

\* no loadPdf call has been made
NoCalls ==
    /\ lpc = [c \in Calls |-> "idle"]
    /\ callFile = [c \in Calls |-> NoFile]
    /\ callI = [c \in Calls |-> 0]
    /\ callPage = [c \in Calls |-> <<NoFile, 0>>]
    /\ callViewport = [c \in Calls |-> 0]
    /\ callResult = [c \in Calls |-> NoResult]

LoadIdle ==
    /\ numPages = [f \in Files |-> 1]
    /\ failing = {}
    /\ failStep = "render"
    /\ NoCalls
    /\ Constructed

\* the BlackoutBreaker after its constructor
AppIdle ==
    /\ callKind = [c \in Calls |-> "none"]
    /\ callDoc = [c \in Calls |-> 0]
    /\ documents = <<>>
    /\ currentDocId = 0
    /\ saved = {}

\* no page has been drawn
PageIdle ==
    /\ originalCanvas = [width |-> 0, height |-> 0, data |-> <<>>]
    /\ fixedCanvas = [width |-> 0, height |-> 0, data |-> <<>>]

\* no document is on display
JumpIdle ==
    /\ jpc = "idle"
    /\ shownDoc = [pages |-> <<>>, redactions |-> <<>>]
    /\ highlights = {}
    /\ diffItems = <<>>
    /\ active = {}
    /\ highlightedRedaction = <<>>
    /\ clicked = 0

----------------------------------------------------------------------------
(* Generic helpers *)

Min(a, b) == IF a <= b THEN a ELSE b

Max(a, b) == IF a >= b THEN a ELSE b

Range(s) == {s[k] : k \in DOMAIN s}

\* all reorderings of a sequence
Reorderings(s) ==
    {[k \in 1..Len(s) |-> s[p[k]]] : p \in Permutations(1..Len(s))}

\* number of positions of s holding e
Count(s, e) == Cardinality({k \in DOMAIN s : s[k] = e})

SameMultiset(s, t) ==
    /\ Len(s) = Len(t)
    /\ \A e \in Range(s) \cup Range(t) : Count(s, e) = Count(t, e)

----------------------------------------------------------------------------
(* mergeRedactions *)

gap == 10

\* "v / this.scale" as a fraction; this.scale is held in quarters
PdfOf(v) == [num |-> 4 * v, den |-> scale]

\* a redaction as detectRedactions pushes it: its raster box, the box
\* divided by this.scale, and hiddenText
Rect(x, y, w, h) ==
    [x |-> x, y |-> y, width |-> w, height |-> h,
     pdfX |-> PdfOf(x), pdfY |-> PdfOf(y),
     pdfWidth |-> PdfOf(w), pdfHeight |-> PdfOf(h),
     hiddenText |-> <<>>]

\* the adjacency test of the merge loop, with a strict comparison
AdjacentStrict(current, other) ==
    /\ current.x - gap < other.x + other.width
    /\ current.x + current.width + gap > other.x
    /\ current.y - gap < other.y + other.height
    /\ current.y + current.height + gap > other.y

\* the adjacency test of the merge loop
Adjacent(current, other) ==
    /\ current.x - gap <= other.x + other.width
    /\ current.x + current.width + gap >= other.x
    /\ current.y - gap <= other.y + other.height
    /\ current.y + current.height + gap >= other.y

\* an absorption that keeps the origin of current
AbsorbKeepOrigin(current, other) ==
    LET newMaxX == Max(current.x + current.width, other.x + other.width)
        newMaxY == Max(current.y + current.height, other.y + other.height)
    IN  [current EXCEPT !.width = newMaxX - current.x,
                        !.height = newMaxY - current.y]

\* an absorption that leaves pdfX, pdfY, pdfWidth and pdfHeight as they were
AbsorbStalePdf(current, other) ==
    LET newX == Min(current.x, other.x)
        newY == Min(current.y, other.y)
        newMaxX == Max(current.x + current.width, other.x + other.width)
        newMaxY == Max(current.y + current.height, other.y + other.height)
    IN  [current EXCEPT !.x = newX, !.y = newY,
                        !.width = newMaxX - newX,
                        !.height = newMaxY - newY]

\* current grown to the bounding union of current and other
Absorb(current, other) ==
    LET newX == Min(current.x, other.x)
        newY == Min(current.y, other.y)
        newMaxX == Max(current.x + current.width, other.x + other.width)
        newMaxY == Max(current.y + current.height, other.y + other.height)
    IN  [current EXCEPT !.x = newX, !.y = newY,
                        !.width = newMaxX - newX,
                        !.height = newMaxY - newY,
                        !.pdfX = PdfOf(newX),
                        !.pdfY = PdfOf(newY),
                        !.pdfWidth = PdfOf(newMaxX - newX),
                        !.pdfHeight = PdfOf(newMaxY - newY)]

\* one pass "for (let j = 0; ...)" over the candidates, from index j on
RECURSIVE InnerPass(_, _, _, _, _)
InnerPass(redactions, j, current, used, didMerge) ==
    IF j > Len(redactions)
    THEN [current |-> current, used |-> used, didMerge |-> didMerge]
    ELSE IF j \in used
         THEN InnerPass(redactions, j + 1, current, used, didMerge)
         ELSE IF Adjacent(current, redactions[j])
              THEN InnerPass(redactions, j + 1, Absorb(current, redactions[j]),
                             used \cup {j}, TRUE)
              ELSE InnerPass(redactions, j + 1, current, used, didMerge)

\* a single pass, never repeated
MergeWhileOnce(redactions, current, used) ==
    InnerPass(redactions, 1, current, used, FALSE)

\* "while (didMerge)": passes are repeated until one absorbs nothing
RECURSIVE MergeWhile(_, _, _)
MergeWhile(redactions, current, used) ==
    LET p == InnerPass(redactions, 1, current, used, FALSE)
    IN  IF p.didMerge THEN MergeWhile(redactions, p.current, p.used) ELSE p

\* "for (let i = 0; ...)": the list of [current, members] pushed to merged
RECURSIVE MergeOuter(_, _, _, _)
MergeOuter(redactions, i, used, out) ==
    IF i > Len(redactions) THEN out
    ELSE IF i \in used THEN MergeOuter(redactions, i + 1, used, out)
    ELSE LET p == MergeWhile(redactions, redactions[i], used \cup {i})
         IN  MergeOuter(redactions, i + 1, p.used,
                        Append(out, [current |-> p.current,
                                     members |-> p.used \ used]))

mergeRedactions(redactions) ==
    IF Len(redactions) < 2 THEN redactions
    ELSE LET out == MergeOuter(redactions, 1, {}, <<>>)
         IN  [k \in 1..Len(out) |-> out[k].current]

\* which candidates each returned box stands for
mergeMembers(redactions) ==
    IF Len(redactions) < 2 THEN [k \in 1..Len(redactions) |-> {k}]
    ELSE LET out == MergeOuter(redactions, 1, {}, <<>>)
         IN  [k \in 1..Len(out) |-> out[k].members]

----------------------------------------------------------------------------
(* Merge runs: candidate lists as the scan can emit them (width >= 20,     *)
(* height >= 8).                                                           *)

MaxCands == 3

CandRects ==
    { Rect(0, 0, 20, 20),      \* a small box in the corner
      Rect(30, 0, 20, 20),     \* 10 px to its right
      Rect(35, 0, 20, 20),     \* 15 px to its right
      Rect(50, 0, 20, 70),     \* a tall bar
      Rect(0, 80, 70, 20),     \* a wide bar 10 px under the tall bar
      Rect(200, 200, 20, 20),  \* far from all of the above
      Rect(200, 230, 20, 8) }  \* 10 px under the far box

CandLists == UNION {[1..n -> CandRects] : n \in 0..MaxCands}

MergeInit ==
    /\ TextIdle
    /\ mpc = "start"
    /\ cands \in CandLists
    /\ perm = <<>>
    /\ merged = <<>>
    /\ groups = <<>>
    /\ mergedPerm = <<>>
    /\ mergedTwice = <<>>
    /\ ScanIdle
    /\ LoadIdle
    /\ AppIdle
    /\ PageIdle
    /\ JumpIdle

MergeCands ==
    /\ mpc = "start"
    /\ merged' = mergeRedactions(cands)
    /\ groups' = mergeMembers(cands)
    /\ mpc' = "merged"
    /\ UNCHANGED <<cands, perm, mergedPerm, mergedTwice>>
    /\ UNCHANGED <<textVars, scanVars, loadVars, appVars, pageVars, jumpVars>>

MergePermuted ==
    /\ mpc = "merged"
    /\ \E p \in Reorderings(cands) :
          /\ perm' = p
          /\ mergedPerm' = mergeRedactions(p)
    /\ mpc' = "permuted"
    /\ UNCHANGED <<cands, merged, groups, mergedTwice>>
    /\ UNCHANGED <<textVars, scanVars, loadVars, appVars, pageVars, jumpVars>>

MergeAgain ==
    /\ mpc = "permuted"
    /\ mergedTwice' = mergeRedactions(merged)
    /\ mpc' = "again"
    /\ UNCHANGED <<cands, perm, merged, groups, mergedPerm>>
    /\ UNCHANGED <<textVars, scanVars, loadVars, appVars, pageVars, jumpVars>>

MergeNext == MergeCands \/ MergePermuted \/ MergeAgain

SpecMerge == MergeInit /\ [][MergeNext]_vars

----------------------------------------------------------------------------
(* findTextInArea and the renderers.                                       *)
(* Raster positions and sizes of text are kept in 1/40 pixel: with the     *)
(* scale in quarters, the 0.6 of the width fallback and the halving of the *)
(* vertical centre all stay integers.                                      *)

Fine == 8 * 5

Abs(n) == IF n < 0 THEN 0 - n ELSE n

\* strings are sequences of characters
RECURSIVE TrimStart(_)
TrimStart(str) ==
    IF str # <<>> /\ Head(str) = " " THEN TrimStart(Tail(str)) ELSE str

RECURSIVE TrimEnd(_)
TrimEnd(str) ==
    IF str # <<>> /\ str[Len(str)] = " "
    THEN TrimEnd(SubSeq(str, 1, Len(str) - 1))
    ELSE str

\* String.prototype.trim
Trim(str) == TrimEnd(TrimStart(str))

\* "!item.str || item.str.trim() === ''"
IsEmptyText(str) == str = <<>> \/ Trim(str) = <<>>

\* a comparison with "1111" that forgets to trim
IsPlaceholderUntrimmed(str) == str = <<"1", "1", "1", "1">>

\* "item.str.trim() === '1111'"
IsPlaceholder(str) == Trim(str) = <<"1", "1", "1", "1">>

\* height of the modelled page, in PDF units
PageHeight == 100

\* page.getViewport({ scale }) of an unrotated page: scale entries in
\* quarters, translations in 1/40 pixel
getViewport(s) ==
    [scale |-> s, transform |-> <<s, 0, 0, 0 - s, 0, 10 * s * PageHeight>>]

\* a text item of PDF.js: transform = [scaleX, skewX, skewY, scaleY, tx, ty]
TextItem(str, fontScale, pdfX, pdfY, width) ==
    [str |-> str, transform |-> <<fontScale, 0, 0, fontScale, pdfX, pdfY>>,
     width |-> width]

\* a text item one of whose transform entries is not a finite number: the
\* entry's tag is "NaN", "+Inf" or "-Inf", and its number is not read
NonFiniteItem(str, k, tag) ==
    [str |-> str, transform |-> <<8, 0, 0, 8, 40, 70>>, width |-> 20,
     nonFinite |-> [j \in 1..6 |-> IF j = k THEN tag ELSE "finite"]]

\* what "transform[k - 1]" is when it is not a number of the model
NonFiniteAt(item, k) ==
    IF "nonFinite" \in DOMAIN item THEN item.nonFinite[k] ELSE "finite"

\* "Math.abs(transform[0]) || 12": Math.abs(NaN) is NaN, which is falsy
fontSizeOf(item) ==
    IF NonFiniteAt(item, 1) = "NaN" THEN 12
    ELSE IF Abs(item.transform[1]) = 0 THEN 12 ELSE Abs(item.transform[1])

\* the non-finite entries that reach the tests on the text box:
\* fontSize = Infinity puts textTop and textCenterY at -Infinity;
\* a NaN translation makes overlapWidth or textCenterY NaN, and every
\* comparison with NaN is false; an infinite translateX leaves overlapWidth
\* = Math.max(0, -Infinity) = 0, an infinite translateY puts textCenterY at
\* -Infinity or +Infinity
Unplaceable(item) ==
    \/ NonFiniteAt(item, 1) \in {"+Inf", "-Inf"}
    \/ NonFiniteAt(item, 5) # "finite"
    \/ NonFiniteAt(item, 6) # "finite"

\* ten times "item.width || (item.str.length * fontSize * 0.6)"
itemWidth10(item) ==
    IF item.width # 0 THEN 10 * item.width
    ELSE Len(item.str) * fontSizeOf(item) * 6

\* "vt[0] * pdfX + vt[4]"
canvasXOf(item, vp) == 10 * vp.transform[1] * item.transform[5] + vp.transform[5]

\* "vt[3] * pdfY + vt[5]"
canvasYOf(item, vp) == 10 * vp.transform[4] * item.transform[6] + vp.transform[6]

\* "itemWidth * this.scale"
scaledWidthOf(item, sc) == itemWidth10(item) * sc

\* "fontSize * this.scale"
scaledHeightOf(item, sc) == 10 * fontSizeOf(item) * sc

\* the acceptance test with a strict horizontal threshold
TextInsideStrict(item, redaction, vp, sc) ==
    LET textLeft == canvasXOf(item, vp)
        textRight == canvasXOf(item, vp) + scaledWidthOf(item, sc)
        textTop == canvasYOf(item, vp) - scaledHeightOf(item, sc)
        textBottom == canvasYOf(item, vp)
        redactLeft == Fine * redaction.x
        redactRight == Fine * (redaction.x + redaction.width)
        redactTop == Fine * redaction.y
        redactBottom == Fine * (redaction.y + redaction.height)
        overlapWidth ==
            Max(0, Min(textRight, redactRight) - Max(textLeft, redactLeft))
        overlapHeight ==
            Max(0, Min(textBottom, redactBottom) - Max(textTop, redactTop))
    IN  /\ scaledWidthOf(item, sc) > 0
        /\ 2 * overlapWidth > scaledWidthOf(item, sc)
        /\ textTop + textBottom >= 2 * redactTop
        /\ textTop + textBottom <= 2 * redactBottom
        /\ overlapHeight > 0

\* "horizontalOverlapRatio >= 0.5 && verticalInside && overlapHeight > 0"
\* (a ratio with a zero or negative divisor is NaN or -0, never >= 0.5)
TextInside(item, redaction, vp, sc) ==
    LET textLeft == canvasXOf(item, vp)
        textRight == canvasXOf(item, vp) + scaledWidthOf(item, sc)
        textTop == canvasYOf(item, vp) - scaledHeightOf(item, sc)
        textBottom == canvasYOf(item, vp)
        redactLeft == Fine * redaction.x
        redactRight == Fine * (redaction.x + redaction.width)
        redactTop == Fine * redaction.y
        redactBottom == Fine * (redaction.y + redaction.height)
        overlapWidth ==
            Max(0, Min(textRight, redactRight) - Max(textLeft, redactLeft))
        overlapHeight ==
            Max(0, Min(textBottom, redactBottom) - Max(textTop, redactTop))
    IN  /\ ~Unplaceable(item)
        /\ scaledWidthOf(item, sc) > 0
        /\ 2 * overlapWidth >= scaledWidthOf(item, sc)
        /\ textTop + textBottom >= 2 * redactTop
        /\ textTop + textBottom <= 2 * redactBottom
        /\ overlapHeight > 0

\* the record pushed to foundText (index counts from 1 here)
FoundItem(item, i, vp, sc) ==
    [text |-> item.str,
     x |-> canvasXOf(item, vp),
     y |-> canvasYOf(item, vp),
     width |-> scaledWidthOf(item, sc),
     height |-> scaledHeightOf(item, sc),
     fontSize |-> scaledHeightOf(item, sc),
     index |-> i]

\* an assigned-set lookup that never finds anything
NeverAssigned(i, assigned) == FALSE

\* "assignedTextIndices.has(i)"
AlreadyAssigned(i, assigned) == i \in assigned

\* "for (let i = 0; i < textItems.length; i++)" of findTextInArea
RECURSIVE FindLoop(_, _, _, _, _, _, _)
FindLoop(items, redaction, vp, sc, i, assigned, foundText) ==
    IF i > Len(items)
    THEN [foundText |-> foundText, assigned |-> assigned]
    ELSE IF \/ AlreadyAssigned(i, assigned)
            \/ IsEmptyText(items[i].str)
            \/ IsPlaceholder(items[i].str)
            \/ ~TextInside(items[i], redaction, vp, sc)
         THEN FindLoop(items, redaction, vp, sc, i + 1, assigned, foundText)
         ELSE FindLoop(items, redaction, vp, sc, i + 1, assigned \cup {i},
                       Append(foundText, FoundItem(items[i], i, vp, sc)))

\* the comparator handed to foundText.sort
compareFn(a, b) ==
    IF Abs(a.y - b.y) < 5 * Fine THEN a.x - b.x ELSE a.y - b.y

\* ECMAScript's "consistent comparator" for the elements of l (compareFn is
\* antisymmetric, so transitivity of = and of < is what is left to ask)
ConsistentComparator(l) ==
    \A i, j, k \in DOMAIN l :
        /\ (compareFn(l[i], l[j]) = 0 /\ compareFn(l[j], l[k]) = 0)
              => compareFn(l[i], l[k]) = 0
        /\ (compareFn(l[i], l[j]) < 0 /\ compareFn(l[j], l[k]) < 0)
              => compareFn(l[i], l[k]) < 0

\* Array.prototype.sort: the stable order when the comparator is consistent,
\* an implementation-defined order otherwise
SortOutcomes(l) ==
    LET perms == Permutations(DOMAIN l)
        stable == {p \in perms :
                     \A i, j \in DOMAIN l :
                         i < j =>
                            \/ compareFn(l[p[i]], l[p[j]]) < 0
                            \/ /\ compareFn(l[p[i]], l[p[j]]) = 0
                               /\ p[i] < p[j]}
    IN  {[k \in DOMAIN l |-> l[p[k]]] :
            p \in IF ConsistentComparator(l) THEN stable ELSE perms}

\* "horizontalOverlap > textWidth * 0.3 && verticalInside" for some redaction
isInRedaction(item, redactions, vp, sc) ==
    LET textLeft == canvasXOf(item, vp)
        textWidth == scaledWidthOf(item, sc)
        textRight == textLeft + textWidth
        textTop == canvasYOf(item, vp) - scaledHeightOf(item, sc)
        textBottom == canvasYOf(item, vp)
    IN  \E k \in DOMAIN redactions :
            LET redaction == redactions[k]
                overlapLeft == Max(textLeft, Fine * redaction.x)
                overlapRight ==
                    Min(textRight, Fine * (redaction.x + redaction.width))
                horizontalOverlap == Max(0, overlapRight - overlapLeft)
            IN  /\ ~Unplaceable(item)
                /\ 10 * horizontalOverlap > 3 * textWidth
                /\ textTop + textBottom >= 2 * Fine * redaction.y
                /\ textTop + textBottom
                      <= 2 * Fine * (redaction.y + redaction.height)

\* indices of the items renderTextForExport draws with fillText
renderTextForExport(items, redactions, vp, sc) ==
    {i \in DOMAIN items :
        /\ ~IsEmptyText(items[i].str)
        /\ ~IsPlaceholder(items[i].str)
        /\ isInRedaction(items[i], redactions, vp, sc)}

\* indices of the items renderTextLayerForRedactions makes a span for
renderTextLayerForRedactions(items, redactions, vp, sc) ==
    {i \in DOMAIN items :
        /\ ~IsEmptyText(items[i].str)
        /\ ~IsPlaceholder(items[i].str)
        /\ isInRedaction(items[i], redactions, vp, sc)}

----------------------------------------------------------------------------
(* The fixed canvas of processPage *)

\* '#FFFFFF'
EraseColour == <<255, 255, 255>>

\* "ctx.fillRect(x, y, w, h)" with fillStyle colour, on integer coordinates:
\* the pixel columns x .. x + w - 1 of the rows y .. y + h - 1 that lie on
\* the canvas
fillRect(canvas, x, y, w, h, colour) ==
    [canvas EXCEPT !.data =
        [n \in DOMAIN canvas.data |->
            LET px == (n - 1) % canvas.width
                py == (n - 1) \div canvas.width
            IN  IF x <= px /\ px < x + w /\ y <= py /\ py < y + h
                THEN colour ELSE canvas.data[n]]]

\* a fill of the region's box as it is
ErasedBoxExact(redaction) ==
    [x |-> redaction.x, y |-> redaction.y,
     width |-> redaction.width, height |-> redaction.height]

\* "redaction.x - 1, redaction.y - 1, redaction.width + 2,
\*  redaction.height + 2"
ErasedBox(redaction) ==
    [x |-> redaction.x - 1, y |-> redaction.y - 1,
     width |-> redaction.width + 2, height |-> redaction.height + 2]

\* "for (const redaction of pageRedactions) { fixedCtx.fillRect(...) }",
\* from region k on
RECURSIVE WhiteOut(_, _, _)
WhiteOut(canvas, redactions, k) ==
    IF k > Len(redactions) THEN canvas
    ELSE LET b == ErasedBox(redactions[k])
         IN  WhiteOut(fillRect(canvas, b.x, b.y, b.width, b.height,
                               EraseColour),
                      redactions, k + 1)

\* the fixed canvas: "fixedCtx.drawImage(originalCanvas, 0, 0)" onto a
\* canvas of the same size, then the fills
FixedCanvasOf(canvas, redactions) == WhiteOut(canvas, redactions, 1)

----------------------------------------------------------------------------
(* One page's association run *)

MaxItems == 3

\* the region the items below lie in: x 30..90, y 30..54
RegionA == Rect(30, 30, 60, 24)

\* a region that overlaps RegionA (mergeRedactions can return such a pair)
RegionBig == Rect(0, 0, 120, 100)

\* a region further down the page
RegionFar == Rect(30, 100, 60, 24)

PageRegionLists ==
    { <<>>, <<RegionA>>, <<RegionA, RegionBig>>, <<RegionFar, RegionA>> }

\* at scale 1.5 an item at (pdfX, pdfY) has its baseline at raster
\* (1.5 * pdfX, 1.5 * (100 - pdfY))
ItemKinds ==
    { TextItem(<<"a", "b">>, 8, 40, 72, 0),                \* raster (60, 42)
      TextItem(<<"S", "e", "c", "r", "e", "t">>, 8, 30, 70, 20),  \* (45, 45)
      TextItem(<<"c">>, 0 - 8, 20, 68, 10),                \* raster (30, 48)
      TextItem(<<"h", "a", "l", "f">>, 8, 50, 70, 20),     \* half inside RegionA
      TextItem(<<"l", "e", "s", "s">>, 0, 52, 70, 20),     \* 40% inside RegionA
      TextItem(<<"1", "1", "1", "1", " ">>, 8, 30, 70, 20),
      TextItem(<<" ">>, 8, 30, 70, 20) }

ItemLists == UNION {[1..n -> ItemKinds] : n \in 0..MaxItems}

TextInit ==
    /\ MergeIdle
    /\ ScanIdle
    /\ LoadIdle
    /\ AppIdle
    /\ PageIdle
    /\ JumpIdle
    /\ tpc = "assoc"
    /\ scale = InitialScale
    /\ viewport = getViewport(InitialScale)
    /\ textItems \in ItemLists
    /\ pageRedactions \in PageRegionLists
    /\ assignedTextIndices = {}
    /\ rIdx = 1
    /\ rendered = {}
    /\ drawnExport = {}
    /\ drawnLayer = {}

\* one iteration of "for (const redaction of pageRedactions)" in processPage:
\* a whole findTextInArea call, its sort included
FindTextInArea ==
    /\ tpc = "assoc"
    /\ rIdx <= Len(pageRedactions)
    /\ LET r == FindLoop(textItems, pageRedactions[rIdx], viewport, scale,
                         1, assignedTextIndices, <<>>)
       IN  /\ assignedTextIndices' = r.assigned
           /\ \E sorted \in SortOutcomes(r.foundText) :
                 pageRedactions' =
                     [pageRedactions EXCEPT ![rIdx].hiddenText = sorted]
    /\ rIdx' = rIdx + 1
    /\ UNCHANGED <<tpc, scale, viewport, textItems, rendered,
                   drawnExport, drawnLayer>>
    /\ UNCHANGED <<mergeVars, scanVars, loadVars, appVars, pageVars, jumpVars>>

\* the rest of processPage once every region has its hiddenText: the fixed
\* canvas is made from the original
FinishPage ==
    /\ tpc = "assoc"
    /\ rIdx > Len(pageRedactions)
    /\ fixedCanvas' = FixedCanvasOf(originalCanvas, pageRedactions)
    /\ tpc' = "done"
    /\ UNCHANGED <<scale, viewport, textItems, pageRedactions,
                   assignedTextIndices, rIdx, rendered, drawnExport, drawnLayer>>
    /\ UNCHANGED originalCanvas
    /\ UNCHANGED <<mergeVars, scanVars, loadVars, appVars, jumpVars>>

\* exportAsPdf draws the page's text
RenderExport ==
    /\ tpc = "done"
    /\ "export" \notin rendered
    /\ drawnExport' =
          renderTextForExport(textItems, pageRedactions, viewport, scale)
    /\ rendered' = rendered \cup {"export"}
    /\ UNCHANGED <<tpc, scale, viewport, textItems, pageRedactions,
                   assignedTextIndices, rIdx, drawnLayer>>
    /\ UNCHANGED <<mergeVars, scanVars, loadVars, appVars, pageVars, jumpVars>>

\* renderDocument builds the fixed pane's text layer
RenderLayer ==
    /\ tpc = "done"
    /\ "layer" \notin rendered
    /\ drawnLayer' =
          renderTextLayerForRedactions(textItems, pageRedactions, viewport, scale)
    /\ rendered' = rendered \cup {"layer"}
    /\ UNCHANGED <<tpc, scale, viewport, textItems, pageRedactions,
                   assignedTextIndices, rIdx, drawnExport>>
    /\ UNCHANGED <<mergeVars, scanVars, loadVars, appVars, pageVars, jumpVars>>

TextNext == FindTextInArea \/ FinishPage \/ RenderExport \/ RenderLayer

SpecText == TextInit /\ [][TextNext]_vars

\* text items lying inside RegionA (raster box x 60..90, y 33..45, or
\* y 27..45 with the fallback font size) with one entry of the transform
\* not finite, and one with all entries finite
NonFiniteKinds ==
    { TextItem(<<"o", "k">>, 8, 40, 70, 20),
      NonFiniteItem(<<"s", "x">>, 1, "NaN"),
      NonFiniteItem(<<"s", "x">>, 1, "+Inf"),
      NonFiniteItem(<<"s", "y">>, 4, "NaN"),
      NonFiniteItem(<<"s", "y">>, 4, "-Inf"),
      NonFiniteItem(<<"t", "x">>, 5, "NaN"),
      NonFiniteItem(<<"t", "x">>, 5, "-Inf"),
      NonFiniteItem(<<"t", "y">>, 6, "NaN"),
      NonFiniteItem(<<"t", "y">>, 6, "+Inf") }

\* a page whose text content holds such items
NonFiniteInit ==
    /\ MergeIdle
    /\ ScanIdle
    /\ LoadIdle
    /\ AppIdle
    /\ PageIdle
    /\ JumpIdle
    /\ tpc = "assoc"
    /\ scale = InitialScale
    /\ viewport = getViewport(InitialScale)
    /\ textItems \in UNION {[1..n -> NonFiniteKinds] : n \in 1..MaxItems}
    /\ pageRedactions \in {<<RegionA>>, <<RegionA, RegionBig>>}
    /\ assignedTextIndices = {}
    /\ rIdx = 1
    /\ rendered = {}
    /\ drawnExport = {}
    /\ drawnLayer = {}

SpecNonFinite == NonFiniteInit /\ [][TextNext]_vars

----------------------------------------------------------------------------
(* detectRedactions *)

blackThreshold == 30

minRedactionSize == 20

\* "isBlack" with "||" between the channel tests
isBlackAnyChannel(img, x, y) ==
    IF x < 0 \/ x >= img.width \/ y < 0 \/ y >= img.height THEN FALSE
    ELSE IF y * img.width + x + 1 > Len(img.data) THEN FALSE
    ELSE LET px == img.data[y * img.width + x + 1]
         IN  \/ px[1] < blackThreshold
             \/ px[2] < blackThreshold
             \/ px[3] < blackThreshold

\* "isBlack": the three colour channels are below the threshold; a
\* coordinate outside the buffer is never black, and neither is a pixel
\* past the end of data ("undefined < 30" is false)
isBlack(img, x, y) ==
    IF x < 0 \/ x >= img.width \/ y < 0 \/ y >= img.height THEN FALSE
    ELSE IF y * img.width + x + 1 > Len(img.data) THEN FALSE
    ELSE LET px == img.data[y * img.width + x + 1]
         IN  /\ px[1] < blackThreshold
             /\ px[2] < blackThreshold
             /\ px[3] < blackThreshold

\* "while (minX > 0 && isBlack(minX - 1, y)) minX--"
RECURSIVE ExpandLeft(_, _, _)
ExpandLeft(img, minX, y) ==
    IF minX > 0 /\ isBlack(img, minX - 1, y)
    THEN ExpandLeft(img, minX - 1, y) ELSE minX

\* "while (maxX < width - 1 && isBlack(maxX + 1, y)) maxX++"
RECURSIVE ExpandRight(_, _, _)
ExpandRight(img, maxX, y) ==
    IF maxX < img.width - 1 /\ isBlack(img, maxX + 1, y)
    THEN ExpandRight(img, maxX + 1, y) ELSE maxX

\* the values a loop "for (v = from; v <= to; v += step)" takes
Strided(from, to, step) ==
    {v \in from..to : (v - from) % step = 0}

\* "for (let tx = minX; tx <= maxX; tx += 3)" finds no non-black sample
RowAllBlack(img, minX, maxX, row) ==
    \A tx \in Strided(minX, maxX, 3) : isBlack(img, tx, row)

\* "while (allBlackAbove && minY > 0)"
RECURSIVE ExpandUp(_, _, _, _)
ExpandUp(img, minX, maxX, minY) ==
    IF minY > 0 /\ RowAllBlack(img, minX, maxX, minY - 1)
    THEN ExpandUp(img, minX, maxX, minY - 1) ELSE minY

\* the downward growth stopped one row short of the buffer's last row
RECURSIVE ExpandDownShort(_, _, _, _)
ExpandDownShort(img, minX, maxX, maxY) ==
    IF maxY < img.height - 2 /\ RowAllBlack(img, minX, maxX, maxY + 1)
    THEN ExpandDownShort(img, minX, maxX, maxY + 1) ELSE maxY

\* "while (allBlackBelow && maxY < height - 1)"
RECURSIVE ExpandDown(_, _, _, _)
ExpandDown(img, minX, maxX, maxY) ==
    IF maxY < img.height - 1 /\ RowAllBlack(img, minX, maxX, maxY + 1)
    THEN ExpandDown(img, minX, maxX, maxY + 1) ELSE maxY

\* the box grown from the black seed (x, y)
GrowBox(img, x, y) ==
    LET minX == ExpandLeft(img, x, y)
        maxX == ExpandRight(img, x, y)
    IN  [minX |-> minX, maxX |-> maxX,
         minY |-> ExpandUp(img, minX, maxX, y),
         maxY |-> ExpandDown(img, minX, maxX, y)]

\* the keys added to visited for a grown box
VisitedKeys(b) ==
    {<<vx, vy>> : vx \in Strided(b.minX, b.maxX, 5),
                  vy \in Strided(b.minY, b.maxY, 5)}

\* the density test left out
DenseAlways(img, b) == b.maxX >= b.minX

\* "blackPixelCount / totalPixels > 0.85" over the stride-2 samples
DenseEnough(img, b) ==
    LET samples == {<<vx, vy>> : vx \in Strided(b.minX, b.maxX, 2),
                                 vy \in Strided(b.minY, b.maxY, 2)}
        blackPixelCount ==
            Cardinality({q \in samples : isBlack(img, q[1], q[2])})
    IN  100 * blackPixelCount > 85 * Cardinality(samples)

\* the size test left out
EmittedAnySize(img, b) == DenseEnough(img, b)

\* the box is pushed to redactions
Emitted(img, b) ==
    /\ b.maxX - b.minX >= minRedactionSize
    /\ b.maxY - b.minY >= 8
    /\ DenseEnough(img, b)

\* the two scan loops, from seed (x, y) on
RECURSIVE ScanFrom(_, _, _, _, _)
ScanFrom(img, x, y, seen, redactions) ==
    IF y >= img.height THEN [visited |-> seen, redactions |-> redactions]
    ELSE IF x >= img.width THEN ScanFrom(img, 0, y + 5, seen, redactions)
    ELSE IF <<x, y>> \in seen \/ ~isBlack(img, x, y)
         THEN ScanFrom(img, x + 5, y, seen, redactions)
         ELSE LET b == GrowBox(img, x, y)
              IN  ScanFrom(img, x + 5, y, seen \cup VisitedKeys(b),
                           IF Emitted(img, b)
                           THEN Append(redactions,
                                       Rect(b.minX, b.minY,
                                            b.maxX - b.minX, b.maxY - b.minY))
                           ELSE redactions)

detectRedactions(img) ==
    mergeRedactions(ScanFrom(img, 0, 0, {}, <<>>).redactions)

----------------------------------------------------------------------------
(* Scans of small rasters *)

BufWidth == 30

BufHeight == 15

BlockWidths == {20, 21, 25}

BlockHeights == {8, 9, 12}

BlackColours == { <<0, 0, 0>>, <<29, 29, 29>> }

OtherColours == { <<255, 255, 255>>, <<29, 29, 30>> }

\* a BufWidth x BufHeight raster of colour bg with the pixel columns
\* b.x .. b.x + b.w - 1 of the rows b.y .. b.y + b.h - 1 painted fg
OneBlock(b, fg, bg) ==
    [width |-> BufWidth, height |-> BufHeight,
     data |-> [n \in 1..(BufWidth * BufHeight) |->
                 LET x == (n - 1) % BufWidth
                     y == (n - 1) \div BufWidth
                 IN  IF /\ b.x <= x /\ x < b.x + b.w
                        /\ b.y <= y /\ y < b.y + b.h
                     THEN fg ELSE bg]]

Blocks ==
    {[x |-> x, y |-> y, w |-> w, h |-> h] :
        x \in 0..BufWidth, y \in 0..BufHeight,
        w \in BlockWidths, h \in BlockHeights}

\* the value of block for a raster that is not one solid rectangle on a
\* background
NoBlock == [x |-> 0, y |-> 0, w |-> 0, h |-> 0]

\* the pixels of a w x h raster
Pixels(w, h) == (0..(w - 1)) \X (0..(h - 1))

\* a w x h raster whose pixels in painted are fg, the others bg
Raster(w, h, painted, fg, bg) ==
    [width |-> w, height |-> h,
     data |-> [n \in 1..(w * h) |->
                 IF <<(n - 1) % w, (n - 1) \div w>> \in painted
                 THEN fg ELSE bg]]

\* rasters of one colour: the whole buffer, and three small ones around the
\* size filter
Uniform ==
    {Raster(d[1], d[2], {}, c, c) :
        d \in {<<BufWidth, BufHeight>>, <<21, 9>>, <<20, 9>>, <<21, 8>>},
        c \in BlackColours \cup OtherColours}

\* a 24 x 10 raster: row 0 and every third column are black
Striped ==
    {Raster(24, 10, {p \in Pixels(24, 10) : p[2] = 0 \/ p[1] % 3 = 0}, fg, bg) :
        fg \in BlackColours, bg \in OtherColours}

\* a 21 x 9 black raster with the columns of holes left bg below row 0:
\* 47 of the 55 stride-2 samples are black for {2, 4}, 43 for {2, 4, 8}
Holed ==
    {Raster(21, 9, {p \in Pixels(21, 9) : p[2] = 0 \/ p[1] \notin holes},
            fg, bg) :
        holes \in {{2, 4}, {2, 4, 8}},
        fg \in BlackColours, bg \in OtherColours}

\* a 21 x 19 raster: two black bars of 9 rows, one row of bg between them
TwoBars ==
    {Raster(21, 19, {p \in Pixels(21, 19) : p[2] # 9}, fg, bg) :
        fg \in BlackColours, bg \in OtherColours}

\* buffers detectRedactions can be handed although no canvas produces them:
\* a dimension of zero, and data shorter than width * height pixels
Malformed ==
    {[width |-> 0, height |-> BufHeight, data |-> <<>>],
     [width |-> BufWidth, height |-> 0, data |-> <<>>],
     [width |-> 21, height |-> 10, data |-> <<>>]}
    \cup {[width |-> 21, height |-> 10,
           data |-> [n \in 1..(21 * 9) |-> fg]] : fg \in BlackColours}

ScanInit ==
    /\ MergeIdle
    /\ TextIdle
    /\ LoadIdle
    /\ AppIdle
    /\ PageIdle
    /\ JumpIdle
    /\ spc = "scan"
    /\ \/ /\ block \in {b \in Blocks : /\ b.x + b.w <= BufWidth
                                       /\ b.y + b.h <= BufHeight}
          /\ \E fg \in BlackColours : \E bg \in OtherColours :
                imageData = OneBlock(block, fg, bg)
       \/ /\ block = NoBlock
          /\ imageData \in Uniform \cup Striped \cup Holed \cup TwoBars
                                  \cup Malformed
    /\ scanned = <<>>
    /\ visited = {}
    /\ detected = <<>>
    /\ scanError = "none"

\* a whole detectRedactions call: the scan, then mergeRedactions; no
\* statement of it throws, whatever width, height and data are
DetectRedactions ==
    /\ spc = "scan"
    /\ LET r == ScanFrom(imageData, 0, 0, {}, <<>>)
       IN  /\ scanned' = r.redactions
           /\ visited' = r.visited
    /\ detected' = detectRedactions(imageData)
    /\ scanError' = "none"
    /\ spc' = "detected"
    /\ UNCHANGED <<imageData, block>>
    /\ UNCHANGED <<mergeVars, textVars, loadVars, appVars, pageVars, jumpVars>>

ScanNext == DetectRedactions

SpecScan == ScanInit /\ [][ScanNext]_vars

----------------------------------------------------------------------------
(* processPage after its awaits: scan, merge, association, fixed canvas *)

\* width and height of the page scanned here, in PDF units
StripWidth == 32

StripHeight == 20

\* page.getViewport({ scale }) of this page, as getViewport above
StripViewport(s) ==
    [scale |-> s, transform |-> <<s, 0, 0, 0 - s, 0, 10 * s * StripHeight>>]

\* "originalCanvas.width = viewport.width", the scale being in quarters
CanvasWidth(vp) == (vp.scale * StripWidth) \div 4

\* "originalCanvas.height = viewport.height"
CanvasHeight(vp) == (vp.scale * StripHeight) \div 4

\* the black rectangles drawn on the page, in raster pixels
PageBlocks ==
    {[x |-> x, y |-> y, w |-> w, h |-> h] :
        x \in {0, 8, 10}, y \in {10, 11}, w \in {20, 21, 30}, h \in {8, 9, 12}}

PageColours == { <<255, 255, 255>>, <<90, 90, 90>> }

\* a fragment whose raster box is x 12..27, y 12..18 at scale 1.5, and a
\* "1111" fragment at the same place
Secret == TextItem(<<"S", "e", "c", "r", "e", "t">>, 4, 8, 8, 10)

Sentinel == TextItem(<<"1", "1", "1", "1">>, 4, 8, 8, 10)

PageItemLists == { <<Secret, Sentinel>>, <<Sentinel, Secret>> }

\* the page has been rendered into originalCanvas and its text content has
\* been read
PageInit ==
    /\ MergeIdle
    /\ LoadIdle
    /\ AppIdle
    /\ JumpIdle
    /\ tpc = "rendered"
    /\ scale = InitialScale
    /\ viewport = StripViewport(InitialScale)
    /\ textItems \in PageItemLists
    /\ pageRedactions = <<>>
    /\ assignedTextIndices = {}
    /\ rIdx = 0
    /\ rendered = {}
    /\ drawnExport = {}
    /\ drawnLayer = {}
    /\ spc = "idle"
    /\ imageData = [width |-> 0, height |-> 0, data |-> <<>>]
    /\ block \in PageBlocks
    /\ scanned = <<>>
    /\ visited = {}
    /\ detected = <<>>
    /\ scanError = "none"
    /\ \E bg \in PageColours :
          originalCanvas =
              Raster(CanvasWidth(viewport), CanvasHeight(viewport),
                     {p \in Pixels(CanvasWidth(viewport),
                                   CanvasHeight(viewport)) :
                         /\ block.x <= p[1] /\ p[1] < block.x + block.w
                         /\ block.y <= p[2] /\ p[2] < block.y + block.h},
                     <<0, 0, 0>>, bg)
    /\ fixedCanvas = [width |-> 0, height |-> 0, data |-> <<>>]

\* "const imageData = originalCtx.getImageData(0, 0, width, height)", a
\* copy of the canvas's pixels, and "this.detectRedactions(imageData, ...)"
PageDetect ==
    /\ tpc = "rendered"
    /\ imageData' = originalCanvas
    /\ LET r == ScanFrom(originalCanvas, 0, 0, {}, <<>>)
       IN  /\ scanned' = r.redactions
           /\ visited' = r.visited
           /\ detected' = mergeRedactions(r.redactions)
           /\ pageRedactions' = mergeRedactions(r.redactions)
    /\ scanError' = "none"
    /\ spc' = "detected"
    /\ assignedTextIndices' = {}
    /\ rIdx' = 1
    /\ tpc' = "assoc"
    /\ UNCHANGED <<scale, viewport, textItems, rendered, drawnExport,
                   drawnLayer, block>>
    /\ UNCHANGED <<mergeVars, loadVars, appVars, pageVars, jumpVars>>

PageNext == PageDetect \/ FindTextInArea \/ FinishPage

SpecPage == PageInit /\ [][PageNext]_vars

----------------------------------------------------------------------------
(* loadPdf: calls on one PDFProcessor, a step from each await to the next *)

MaxPages == 2

\* the pageData processPage returns: pageNum is the parameter, the canvases
\* and the text come from the page object, the viewport from this.scale
PageData(pageNum, page, vpScale) ==
    [pageNum |-> pageNum, file |-> page[1], number |-> page[2],
     scale |-> vpScale]

\* the regions detectRedactions returns for a page: one a page, stamped with
\* the pageNum parameter and divided by this.scale
RegionsOf(pageNum, page, sc) ==
    << [page |-> pageNum, file |-> page[1], number |-> page[2], scale |-> sc] >>

\* "this.fileName = file.name; ... reader.readAsArrayBuffer(file)"
loadPdf(c, file) ==
    /\ lpc[c] = "idle"
    /\ thisFileName' = file
    /\ callFile' = [callFile EXCEPT ![c] = file]
    /\ lpc' = [lpc EXCEPT ![c] = "reading"]
    /\ UNCHANGED <<numPages, failing, failStep, callI, callPage, callViewport,
                   callResult, thisPdfData, thisCurrentPdf, thisPages,
                   thisRedactions, pageArrays, redactionArrays>>

\* reader.onload up to "await loadingTask.promise"
ReaderOnLoad(c) ==
    /\ lpc[c] = "reading"
    /\ thisPdfData' = callFile[c]
    /\ lpc' = [lpc EXCEPT ![c] = "parsing"]
    /\ UNCHANGED <<numPages, failing, failStep, callFile, callI, callPage, callViewport,
                   callResult, thisFileName, thisCurrentPdf, thisPages,
                   thisRedactions, pageArrays, redactionArrays>>
    /\ UNCHANGED <<mergeVars, textVars, scanVars, appVars, pageVars, jumpVars>>

\* the head of "for (let i = 1; i <= this.currentPdf.numPages; i++)" with
\* this.currentPdf = pdf: the next getPage, or the resolve with the arrays
\* this.pages and this.redactions refer to
LoopHead(c, i, pdf, pagesId, redactionsId) ==
    /\ callI' = [callI EXCEPT ![c] = i]
    /\ IF i <= numPages[pdf]
       THEN /\ callPage' = [callPage EXCEPT ![c] = <<pdf, i>>]
            /\ lpc' = [lpc EXCEPT ![c] = "getPage"]
            /\ UNCHANGED callResult
       ELSE /\ callResult' =
                  [callResult EXCEPT ![c] = [numPages |-> numPages[pdf],
                                              pages |-> pagesId,
                                              redactions |-> redactionsId]]
            /\ lpc' = [lpc EXCEPT ![c] = "resolved"]
            /\ UNCHANGED callPage

\* from the document being parsed to the first "await getPage(i)"
DocumentLoaded(c) ==
    /\ lpc[c] = "parsing"
    /\ thisCurrentPdf' = callFile[c]
    /\ thisPages' = c
    /\ thisRedactions' = c
    /\ LoopHead(c, 1, callFile[c], c, c)
    /\ UNCHANGED <<numPages, failing, failStep, callFile, callViewport, thisFileName,
                   thisPdfData, pageArrays, redactionArrays>>
    /\ UNCHANGED <<mergeVars, textVars, scanVars, appVars, pageVars, jumpVars>>

\* processPage up to "await page.render(...).promise"
GotPage(c) ==
    /\ lpc[c] = "getPage"
    /\ callViewport' = [callViewport EXCEPT ![c] = scale]
    /\ lpc' = [lpc EXCEPT ![c] = "render"]
    /\ UNCHANGED <<numPages, failing, failStep, callFile, callI, callPage, callResult,
                   thisFileName, thisPdfData, thisCurrentPdf, thisPages,
                   thisRedactions, pageArrays, redactionArrays>>
    /\ UNCHANGED <<mergeVars, textVars, scanVars, appVars, pageVars, jumpVars>>

\* the render settles: on to "await page.getTextContent()", or its rejection
\* is thrown through processPage into loadPdf's catch, "reject(error)"
PageRendered(c) ==
    /\ lpc[c] = "render"
    /\ lpc' = [lpc EXCEPT ![c] =
                  IF callPage[c] \in failing /\ failStep = "render"
                  THEN "rejected" ELSE "text"]
    /\ UNCHANGED <<numPages, failing, failStep, callFile, callI, callPage,
                   callViewport, callResult, thisFileName, thisPdfData,
                   thisCurrentPdf, thisPages, thisRedactions, pageArrays,
                   redactionArrays>>
    /\ UNCHANGED <<mergeVars, textVars, scanVars, appVars, pageVars, jumpVars>>

\* a processPage that adds the page's regions to this.redactions before the
\* statements that can throw
TextContentReadyPushFirst(c) ==
    /\ lpc[c] = "text"
    /\ redactionArrays' =
          [redactionArrays EXCEPT ![thisRedactions] =
              @ \o RegionsOf(callI[c], callPage[c], scale)]
    /\ IF callPage[c] \in failing
       THEN /\ lpc' = [lpc EXCEPT ![c] = "rejected"]
            /\ UNCHANGED <<pageArrays, callI, callPage, callResult>>
       ELSE /\ pageArrays' =
                  [pageArrays EXCEPT ![thisPages] =
                      Append(@, PageData(callI[c], callPage[c],
                                         callViewport[c]))]
            /\ LoopHead(c, callI[c] + 1, thisCurrentPdf, thisPages,
                        thisRedactions)
    /\ UNCHANGED <<numPages, failing, failStep, callFile, callViewport,
                   thisFileName, thisPdfData, thisCurrentPdf, thisPages,
                   thisRedactions>>
    /\ UNCHANGED <<mergeVars, textVars, scanVars, appVars, pageVars, jumpVars>>

\* the rest of processPage, then loadPdf's "this.pages.push(pageData)",
\* "i++" and the loop head; only microtasks separate the two, no other task
\* runs between them. When getTextContent rejects, or a statement of the
\* synchronous tail throws, the error leaves processPage before its last
\* statement but one, "this.redactions.push(...pageRedactions)", and
\* reaches loadPdf's catch
TextContentReady(c) ==
    /\ lpc[c] = "text"
    /\ IF callPage[c] \in failing
       THEN /\ lpc' = [lpc EXCEPT ![c] = "rejected"]
            /\ UNCHANGED <<redactionArrays, pageArrays, callI, callPage,
                           callResult>>
       ELSE /\ redactionArrays' =
                  [redactionArrays EXCEPT ![thisRedactions] =
                      @ \o RegionsOf(callI[c], callPage[c], scale)]
            /\ pageArrays' =
                  [pageArrays EXCEPT ![thisPages] =
                      Append(@, PageData(callI[c], callPage[c],
                                         callViewport[c]))]
            /\ LoopHead(c, callI[c] + 1, thisCurrentPdf, thisPages,
                        thisRedactions)
    /\ UNCHANGED <<numPages, failing, failStep, callFile, callViewport,
                   thisFileName, thisPdfData, thisCurrentPdf, thisPages,
                   thisRedactions>>
    /\ UNCHANGED <<mergeVars, textVars, scanVars, appVars, pageVars, jumpVars>>

\* a step of call c between two awaits
LoadStep(c) ==
    \/ ReaderOnLoad(c)
    \/ DocumentLoaded(c)
    \/ GotPage(c)
    \/ PageRendered(c)
    \/ TextContentReady(c)

\* documents of 1..MaxPages pages, at most one page of which fails
LoadInit ==
    /\ MergeIdle
    /\ TextIdle
    /\ ScanIdle
    /\ AppIdle
    /\ PageIdle
    /\ JumpIdle
    /\ numPages \in [Files -> 1..MaxPages]
    /\ failing \in {{}} \cup
          {{<<f, p>>} : f \in Files, p \in 1..MaxPages}
    /\ \A pg \in failing : pg[2] <= numPages[pg[1]]
    /\ failStep = "render"
    /\ NoCalls
    /\ Constructed

\* a caller invokes loadPdf
CallLoadPdf ==
    \E c \in Calls : \E file \in Files :
        /\ loadPdf(c, file)
        /\ UNCHANGED <<mergeVars, textVars, scanVars, appVars, pageVars, jumpVars>>

LoadNext == CallLoadPdf \/ \E c \in Calls : LoadStep(c)

SpecLoad == LoadInit /\ [][LoadNext]_vars

\* one document is loaded; a page of it may fail at the render or after it
PageFailInit ==
    /\ MergeIdle
    /\ TextIdle
    /\ ScanIdle
    /\ AppIdle
    /\ PageIdle
    /\ JumpIdle
    /\ numPages \in [Files -> 1..MaxPages]
    /\ failing \in {{}} \cup
          {{<<f, p>>} : f \in Files, p \in 1..MaxPages}
    /\ \A pg \in failing : pg[2] <= numPages[pg[1]]
    /\ failStep \in {"render", "tail"}
    /\ NoCalls
    /\ Constructed

\* the first loadPdf call on the processor, and its steps
FirstLoad ==
    \E file \in Files :
        /\ loadPdf(1, file)
        /\ UNCHANGED <<mergeVars, textVars, scanVars, appVars, pageVars,
                       jumpVars>>

PageFailNext == FirstLoad \/ LoadStep(1)

SpecPageFail == PageFailInit /\ [][PageFailNext]_vars

----------------------------------------------------------------------------
(* BlackoutBreaker: the handlers that use the one PDFProcessor *)

\* "Math.max(0.5, Math.min(3, newScale))", in quarters
setScale(newScale) == Max(2, Min(12, newScale))

\* "this.fileName.replace('.pdf', '_unredacted.pdf')": the first occurrence
fixedName(name) ==
    LET hits == {k \in DOMAIN name : name[k] = ".pdf"}
    IN  IF hits = {} THEN name
        ELSE [name EXCEPT ![CHOOSE k \in hits : \A j \in hits : k <= j] =
                               "_unredacted.pdf"]

\* the text state a handler leaves alone when it sets this.scale
textRest == <<tpc, viewport, textItems, pageRedactions, assignedTextIndices,
              rIdx, rendered, drawnExport, drawnLayer>>

\* processFile up to "await this.processor.loadPdf(file)"; the docId is the
\* number of the call
processFile(c, file) ==
    /\ loadPdf(c, file)
    /\ callKind' = [callKind EXCEPT ![c] = "upload"]
    /\ UNCHANGED <<callDoc, documents, currentDocId, saved>>
    /\ UNCHANGED <<mergeVars, textVars, scanVars, pageVars, jumpVars>>

\* processFile after the await: "this.documents.set(docId, docData)" and
\* "this.selectDocument(docId)"
ProcessFileLoaded(c) ==
    /\ lpc[c] = "resolved"
    /\ callKind[c] = "upload"
    /\ documents' =
          [d \in DOMAIN documents \cup {c} |->
              IF d = c
              THEN [name |-> callFile[c], file |-> callFile[c],
                    numPages |-> callResult[c].numPages,
                    pages |-> callResult[c].pages,
                    redactions |-> callResult[c].redactions,
                    isFixed |-> FALSE]
              ELSE documents[d]]
    /\ currentDocId' = c
    /\ lpc' = [lpc EXCEPT ![c] = "done"]
    /\ UNCHANGED <<numPages, failing, failStep, callFile, callI, callPage,
                   callViewport, callResult, thisFileName, thisPdfData,
                   thisCurrentPdf, thisPages, thisRedactions, pageArrays,
                   redactionArrays>>
    /\ UNCHANGED <<callKind, callDoc, saved>>
    /\ UNCHANGED <<mergeVars, textVars, scanVars, pageVars, jumpVars>>

\* a call's promise was rejected: processFile's catch shows a toast, zoom has
\* no catch
CallFailed(c) ==
    /\ lpc[c] = "rejected"
    /\ callKind[c] \in {"upload", "zoom"}
    /\ lpc' = [lpc EXCEPT ![c] = "done"]
    /\ UNCHANGED <<numPages, failing, failStep, callFile, callI, callPage,
                   callViewport, callResult, thisFileName, thisPdfData,
                   thisCurrentPdf, thisPages, thisRedactions, pageArrays,
                   redactionArrays>>
    /\ UNCHANGED <<mergeVars, textVars, scanVars, appVars, pageVars, jumpVars>>

\* "this.currentDocId = docId"
selectDocument(docId) ==
    /\ docId \in DOMAIN documents
    /\ currentDocId' = docId
    /\ UNCHANGED <<callKind, callDoc, documents, saved>>
    /\ UNCHANGED <<mergeVars, textVars, scanVars, loadVars, pageVars, jumpVars>>

\* zoom up to "await this.processor.loadPdf(doc.file)"
zoom(c, delta) ==
    /\ currentDocId \in DOMAIN documents
    /\ scale' = setScale(scale + delta)
    /\ loadPdf(c, documents[currentDocId].file)
    /\ callKind' = [callKind EXCEPT ![c] = "zoom"]
    /\ callDoc' = [callDoc EXCEPT ![c] = currentDocId]
    /\ UNCHANGED <<documents, currentDocId, saved>>
    /\ UNCHANGED <<mergeVars, textRest, scanVars, pageVars, jumpVars>>

\* zoom after the await: "doc.pages = result.pages; doc.redactions = ..."
ZoomLoaded(c) ==
    /\ lpc[c] = "resolved"
    /\ callKind[c] = "zoom"
    /\ documents' =
          [documents EXCEPT ![callDoc[c]].pages = callResult[c].pages,
                            ![callDoc[c]].redactions = callResult[c].redactions]
    /\ lpc' = [lpc EXCEPT ![c] = "done"]
    /\ UNCHANGED <<numPages, failing, failStep, callFile, callI, callPage,
                   callViewport, callResult, thisFileName, thisPdfData,
                   thisCurrentPdf, thisPages, thisRedactions, pageArrays,
                   redactionArrays>>
    /\ UNCHANGED <<callKind, callDoc, currentDocId, saved>>
    /\ UNCHANGED <<mergeVars, textVars, scanVars, pageVars, jumpVars>>

\* a whole downloadFixed: exportAsPdf of this.pages (null when it is empty),
\* "pdf.save(fixedName)", "doc.isFixed = true"; exportAsPdf awaits nothing,
\* so only microtasks separate its parts
downloadFixed ==
    /\ currentDocId \in DOMAIN documents
    /\ IF pageArrays[thisPages] = <<>>
       THEN UNCHANGED <<documents, saved>>
       ELSE /\ saved' = saved \cup {[name |-> fixedName(thisFileName),
                                     pages |-> pageArrays[thisPages]]}
            /\ documents' = [documents EXCEPT ![currentDocId].isFixed = TRUE]
    /\ UNCHANGED <<callKind, callDoc, currentDocId>>
    /\ UNCHANGED <<mergeVars, textVars, scanVars, loadVars, pageVars, jumpVars>>

AppInit == LoadInit

AppNext ==
    \/ \E c \in Calls : \E file \in Files : processFile(c, file)
    \/ \E c \in Calls : LoadStep(c)
    \/ \E c \in Calls : ProcessFileLoaded(c)
    \/ \E c \in Calls : CallFailed(c)
    \/ \E docId \in DOMAIN documents : selectDocument(docId)
    \/ \E c \in Calls : \E delta \in {-1, 1} : zoom(c, delta)
    \/ \E c \in Calls : ZoomLoaded(c)
    \/ downloadFixed

SpecApp == AppInit /\ [][AppNext]_vars

\* the id of a document uploaded before the calls of the run
PriorDoc == MaxCalls + 1

\* a document was uploaded and is on display: its upload ran alone at the
\* initial scale and none of its pages failed; 0 names the arrays that load
\* left in this.pages and this.redactions
ZoomInit ==
    /\ MergeIdle
    /\ TextIdle
    /\ ScanIdle
    /\ PageIdle
    /\ JumpIdle
    /\ numPages \in [Files -> 1..MaxPages]
    /\ failing = {}
    /\ failStep = "render"
    /\ NoCalls
    /\ \E f \in Files :
          /\ thisFileName = f
          /\ thisPdfData = f
          /\ thisCurrentPdf = f
          /\ pageArrays =
                [a \in ArrayIds |->
                    IF a = 0
                    THEN [i \in 1..numPages[f] |->
                             PageData(i, <<f, i>>, InitialScale)]
                    ELSE <<>>]
          /\ redactionArrays =
                [a \in ArrayIds |->
                    IF a = 0
                    THEN [i \in 1..numPages[f] |->
                             RegionsOf(i, <<f, i>>, InitialScale)[1]]
                    ELSE <<>>]
          /\ documents =
                [d \in {PriorDoc} |->
                    [name |-> f, file |-> f, numPages |-> numPages[f],
                     pages |-> 0, redactions |-> 0, isFixed |-> FALSE]]
    /\ thisPages = 0
    /\ thisRedactions = 0
    /\ callKind = [c \in Calls |-> "none"]
    /\ callDoc = [c \in Calls |-> 0]
    /\ currentDocId = PriorDoc
    /\ saved = {}

\* clicks on the zoom buttons and the steps of the loads they start
ZoomNext ==
    \/ \E c \in Calls : \E delta \in {-1, 1} : zoom(c, delta)
    \/ \E c \in Calls : LoadStep(c)
    \/ \E c \in Calls : ZoomLoaded(c)

SpecZoom == ZoomInit /\ [][ZoomNext]_vars

----------------------------------------------------------------------------
(* BlackoutBreaker: the diff view's "Jump to" buttons *)

MaxShownPages == 3

MaxShownRegions == 2

\* the j-th region of page pageNum: regions of a page differ in y
ShownRegion(pageNum, j) == [page |-> pageNum, x |-> 10, y |-> 20 * j]

\* the pages of a document whose page p has counts[p] regions
ShownPages(counts) ==
    [p \in DOMAIN counts |->
        [pageNum |-> p,
         redactions |-> [j \in 1..counts[p] |-> ShownRegion(p, j)]]]

\* "this.redactions.push(...pageRedactions)" page after page
RECURSIVE AllRedactions(_, _)
AllRedactions(pages, p) ==
    IF p > Len(pages) THEN <<>>
    ELSE pages[p].redactions \o AllRedactions(pages, p + 1)

\* the docData of a document loaded alone
ShownDoc(counts) ==
    [pages |-> ShownPages(counts),
     redactions |-> AllRedactions(ShownPages(counts), 1)]

ShownDocs ==
    {ShownDoc(counts) :
        counts \in UNION {[1..n -> 0..MaxShownRegions] : n \in 1..MaxShownPages}}

\* the highlight overlays renderDocument makes: rIndex counts from 0 within
\* the page, left and top come from the region's x and y
renderDocument(doc) ==
    UNION {{[page |-> doc.pages[p].pageNum, redactionIndex |-> j - 1,
             x |-> doc.pages[p].redactions[j].x,
             y |-> doc.pages[p].redactions[j].y] :
               j \in DOMAIN doc.pages[p].redactions} : p \in DOMAIN doc.pages}

\* "byPage[r.page].push({ ...r, globalIndex: index })" for the regions of
\* page pageNum, from position k of doc.redactions on
RECURSIVE byPage(_, _, _)
byPage(redactions, pageNum, k) ==
    IF k > Len(redactions) THEN <<>>
    ELSE (IF redactions[k].page = pageNum
          THEN <<[page |-> pageNum, x |-> redactions[k].x,
                  y |-> redactions[k].y, index |-> k - 1]>>
          ELSE <<>>) \o byPage(redactions, pageNum, k + 1)

\* the jump buttons of the pages from pageNum on, in ascending page order
RECURSIVE JumpButtons(_, _, _)
JumpButtons(redactions, pageNum, lastPage) ==
    IF pageNum > lastPage THEN <<>>
    ELSE byPage(redactions, pageNum, 1)
            \o JumpButtons(redactions, pageNum + 1, lastPage)

\* the jump buttons renderDiffView makes: data-page, data-x, data-y and
\* data-index = globalIndex, the position in doc.redactions
renderDiffView(doc) == JumpButtons(doc.redactions, 1, Len(doc.pages))

\* a document has been loaded and is about to be shown
JumpInit ==
    /\ MergeIdle
    /\ TextIdle
    /\ ScanIdle
    /\ LoadIdle
    /\ AppIdle
    /\ PageIdle
    /\ jpc = "loaded"
    /\ shownDoc \in ShownDocs
    /\ highlights = {}
    /\ diffItems = <<>>
    /\ active = {}
    /\ highlightedRedaction = <<>>
    /\ clicked = 0

\* selectDocument: "this.renderDocument(doc); this.renderDiffView(doc)"
ShowDocument ==
    /\ jpc = "loaded"
    /\ highlights' = renderDocument(shownDoc)
    /\ diffItems' = renderDiffView(shownDoc)
    /\ jpc' = "shown"
    /\ UNCHANGED <<shownDoc, active, highlightedRedaction, clicked>>
    /\ UNCHANGED <<mergeVars, textVars, scanVars, loadVars, appVars, pageVars>>

\* jumpToRedaction: the page wrapper of pageNum, clearHighlights, then the
\* highlight of that wrapper whose data-redaction-index is index % 100
jumpToRedaction(pageNum, x, y, index) ==
    IF \A p \in DOMAIN shownDoc.pages : shownDoc.pages[p].pageNum # pageNum
    THEN UNCHANGED <<active, highlightedRedaction>>
    ELSE LET found == {h \in highlights :
                          /\ h.page = pageNum
                          /\ h.redactionIndex = index % 100}
         IN  IF found = {}
             THEN /\ active' = {}
                  /\ highlightedRedaction' = <<>>
             ELSE /\ active' = found
                  /\ highlightedRedaction' =
                        [pageNum |-> pageNum, index |-> index]

\* a click on the k-th "Jump to" button
JumpTo ==
    /\ jpc = "shown"
    /\ \E k \in DOMAIN diffItems :
          /\ clicked' = k
          /\ jumpToRedaction(diffItems[k].page, diffItems[k].x,
                             diffItems[k].y, diffItems[k].index)
    /\ UNCHANGED <<jpc, shownDoc, highlights, diffItems>>
    /\ UNCHANGED <<mergeVars, textVars, scanVars, loadVars, appVars, pageVars>>

JumpNext == ShowDocument \/ JumpTo

SpecJump == JumpInit /\ [][JumpNext]_vars

----------------------------------------------------------------------------
(* Geometry the merge claims are stated in *)

\* r grown by d pixels on all four sides
Expand(r, d) == Rect(r.x - d, r.y - d, r.width + 2 * d, r.height + 2 * d)

\* the closed boxes a and b share a point
Intersects(a, b) ==
    /\ a.x <= b.x + b.width
    /\ b.x <= a.x + a.width
    /\ a.y <= b.y + b.height
    /\ b.y <= a.y + a.height

\* a and b are no more than d pixels apart on both axes
Near(a, b, d) == Intersects(Expand(a, d), b)

SetMin(S) == CHOOSE m \in S : \A n \in S : m <= n

SetMax(S) == CHOOSE m \in S : \A n \in S : m >= n

\* bounding box of the rectangles of list l at the indices S (S non-empty)
BBox(l, S) ==
    LET x0 == SetMin({l[i].x : i \in S})
        y0 == SetMin({l[i].y : i \in S})
        x1 == SetMax({l[i].x + l[i].width : i \in S})
        y1 == SetMax({l[i].y + l[i].height : i \in S})
    IN  Rect(x0, y0, x1 - x0, y1 - y0)

\* the indices reachable from S in the adjacency graph of l
RECURSIVE Closure(_, _)
Closure(l, S) ==
    LET T == S \cup {j \in DOMAIN l : \E i \in S : Near(l[i], l[j], gap)}
    IN  IF T = S THEN S ELSE Closure(l, T)

\* connected components of the adjacency graph of l, as index sets
Components(l) == {Closure(l, {i}) : i \in DOMAIN l}

Contains(box, r) ==
    /\ box.x <= r.x
    /\ box.y <= r.y
    /\ r.x + r.width <= box.x + box.width
    /\ r.y + r.height <= box.y + box.height

----------------------------------------------------------------------------
(* Claims about mergeRedactions *)

\* C1 (as stated): the output of mergeRedactions is exactly the bounding-box
\* unions of the connected components of the adjacency graph of the input,
\* one output box per component.
C1_ExactlyComponents ==
    mpc # "start" =>
        /\ Len(merged) = Cardinality(Components(cands))
        /\ \A c \in Components(cands) :
              Count(merged, BBox(cands, c)) =
                  Cardinality({d \in Components(cands) :
                                  BBox(cands, d) = BBox(cands, c)})

\* C1 (amended): every output box is the bounding-box union of the candidates
\* it absorbed, and the candidates absorbed into one box are closed under
\* adjacency: a connected component is never split over two boxes, while
\* several components may be joined into one box.
C1_ComponentsNeverSplit ==
    mpc # "start" =>
        /\ Len(groups) = Len(merged)
        /\ \A k \in DOMAIN merged :
              /\ groups[k] # {}
              /\ groups[k] \subseteq DOMAIN cands
              /\ merged[k] = BBox(cands, groups[k])
              /\ \A i \in groups[k] : Closure(cands, {i}) \subseteq groups[k]

\* C1 witness: a merge has joined two components into one box
C1_Witness ==
    /\ mpc = "merged"
    /\ \E k \in DOMAIN groups : \E c \in Components(cands) :
          c \subseteq groups[k] /\ c # groups[k]

\* C2 (as stated): every reordering of the candidate list yields the same set
\* of final boxes.
C2_OrderIndependent ==
    mpc \in {"permuted", "again"} => Range(mergedPerm) = Range(merged)

\* C3 (as stated): merging the output of a merge changes nothing (same
\* multiset of boxes), i.e. no two output boxes are adjacent.
C3_Idempotent ==
    mpc = "again" =>
        /\ SameMultiset(mergedTwice, merged)
        /\ \A k, m \in DOMAIN merged :
              k # m => ~Near(merged[k], merged[m], gap)

\* C4 (as stated): two candidates are merged into one region exactly when
\* expanding each of them by 10 pixels makes their boxes intersect.
C4_ExpandBoth ==
    (mpc # "start" /\ Len(cands) = 2) =>
        (Len(merged) = 1 <=>
             Intersects(Expand(cands[1], 10), Expand(cands[2], 10)))

\* C4 (amended): two candidates are merged into one region exactly when
\* expanding one of them by 10 pixels makes it intersect (or touch) the
\* other, i.e. when they are at most 10 pixels apart on both axes; in a longer
\* list two such candidates always end up in the same region.
C4_ExpandOne ==
    mpc # "start" =>
        /\ Len(cands) = 2 =>
              (Len(merged) = 1 <=> Intersects(Expand(cands[1], 10), cands[2]))
        /\ \A i, j \in DOMAIN cands :
              Intersects(Expand(cands[i], 10), cands[j]) =>
                  \E k \in DOMAIN groups : {i, j} \subseteq groups[k]

\* C4 witness: two candidates 15 pixels apart, whose boxes expanded by 10
\* pixels each do intersect, have been kept apart
C4_Witness ==
    /\ mpc = "merged"
    /\ Len(cands) = 2
    /\ Len(merged) = 2
    /\ Intersects(Expand(cands[1], 10), Expand(cands[2], 10))

\* C5: mergeRedactions partitions its input: every candidate is absorbed into
\* exactly one output region, whose box contains it, and the output is never
\* longer than the input.
C5_Partition ==
    mpc # "start" =>
        /\ Len(merged) <= Len(cands)
        /\ Len(groups) = Len(merged)
        /\ \A i \in DOMAIN cands :
              /\ Cardinality({k \in DOMAIN groups : i \in groups[k]}) = 1
              /\ \A k \in DOMAIN groups :
                    i \in groups[k] => Contains(merged[k], cands[i])

\* C5 witness: three candidates have been merged into two regions
C5_Witness ==
    /\ mpc = "merged"
    /\ Len(cands) = 3
    /\ Len(merged) = 2
    /\ \E k \in DOMAIN groups : Cardinality(groups[k]) = 2

----------------------------------------------------------------------------
(* Claims about findTextInArea and the renderers *)

\* the source indices held by a hiddenText list
Indices(hiddenText) == {hiddenText[q].index : q \in DOMAIN hiddenText}

\* the regions whose findTextInArea call has returned
Processed == {k \in DOMAIN pageRedactions : k < rIdx}

\* C6: no text-fragment source index appears in the hiddenText of more than
\* one region of a page, nor twice in the same region.
C6_DisjointAssignment ==
    \A k, m \in DOMAIN pageRedactions :
        \A q \in DOMAIN pageRedactions[k].hiddenText :
            \A u \in DOMAIN pageRedactions[m].hiddenText :
                pageRedactions[k].hiddenText[q].index =
                    pageRedactions[m].hiddenText[u].index
                => (k = m /\ q = u)

\* C6 witness: the page is done, and a fragment that fits two regions is held
\* by one of them
C6_Witness ==
    /\ tpc = "done"
    /\ Len(pageRedactions) = 2
    /\ \E i \in DOMAIN textItems :
          /\ TextInside(textItems[i], pageRedactions[1], viewport, scale)
          /\ TextInside(textItems[i], pageRedactions[2], viewport, scale)
          /\ i \in Indices(pageRedactions[1].hiddenText)

\* the fragment's text, trimmed, is empty or is "1111"
Excluded(item) ==
    \/ Trim(item.str) = <<>>
    \/ Trim(item.str) = <<"1", "1", "1", "1">>

\* C7: a fragment whose trimmed text is empty or equals "1111" never appears
\* in any region's hiddenText and is never drawn by the export or the
\* fixed-pane text layer, whatever its overlap with a region.
C7_SentinelExcluded ==
    \A i \in DOMAIN textItems :
        Excluded(textItems[i]) =>
            /\ \A k \in DOMAIN pageRedactions :
                  i \notin Indices(pageRedactions[k].hiddenText)
            /\ i \notin drawnExport
            /\ i \notin drawnLayer

\* C7 witness: both renderers have run on a page that holds a "1111"
\* fragment lying inside a region next to a fragment that was assigned
C7_Witness ==
    /\ rendered = {"export", "layer"}
    /\ drawnExport # {}
    /\ drawnLayer # {}
    /\ \E i \in DOMAIN textItems : \E k \in DOMAIN pageRedactions :
          /\ Trim(textItems[i].str) = <<"1", "1", "1", "1">>
          /\ textItems[i].str # <<"1", "1", "1", "1">>
          /\ pageRedactions[k].hiddenText # <<>>
          /\ Fine * pageRedactions[k].x <= canvasXOf(textItems[i], viewport)
          /\ canvasYOf(textItems[i], viewport)
                <= Fine * (pageRedactions[k].y + pageRedactions[k].height)

\* length of the intersection of the intervals [a1, a2] and [b1, b2]
OverlapLen(a1, a2, b1, b2) == Max(0, Min(a2, b2) - Max(a1, b1))

\* the assignment rule: horizontal overlap ratio >= 0.5, vertical centre
\* within the region's vertical span, vertical intersection > 0
AssignRule(item, region) ==
    LET left == canvasXOf(item, viewport)
        width == scaledWidthOf(item, scale)
        bottom == canvasYOf(item, viewport)
        top == bottom - scaledHeightOf(item, scale)
        rTop == Fine * region.y
        rBottom == Fine * (region.y + region.height)
    IN  /\ 2 * OverlapLen(left, left + width, Fine * region.x,
                          Fine * (region.x + region.width)) >= width
        /\ 2 * rTop <= top + bottom
        /\ top + bottom <= 2 * rBottom
        /\ OverlapLen(top, bottom, rTop, rBottom) > 0

\* C8: when a region is processed, a not-yet-assigned, non-empty,
\* non-sentinel fragment is added to its hiddenText if and only if its
\* horizontal overlap ratio is >= 0.5, its vertical centre lies within the
\* region's vertical span and its vertical intersection height is > 0.
C8_AssignIff ==
    [][ (tpc = "assoc" /\ rIdx' = rIdx + 1) =>
          \A i \in DOMAIN textItems :
              (i \notin assignedTextIndices /\ ~Excluded(textItems[i])) =>
                  (i \in Indices(pageRedactions'[rIdx].hiddenText)
                     <=> AssignRule(textItems[i], pageRedactions[rIdx])) ]_vars

\* C8 witness: a region has been processed that took a fragment lying
\* exactly half inside it and left out a fragment lying 40% inside it
C8_Witness ==
    /\ tpc = "assoc"
    /\ rIdx = 2
    /\ \E i, j \in DOMAIN textItems :
          /\ i \in Indices(pageRedactions[1].hiddenText)
          /\ 2 * OverlapLen(canvasXOf(textItems[i], viewport),
                            canvasXOf(textItems[i], viewport)
                               + scaledWidthOf(textItems[i], scale),
                            Fine * pageRedactions[1].x,
                            Fine * (pageRedactions[1].x + pageRedactions[1].width))
                = scaledWidthOf(textItems[i], scale)
          /\ j \notin Indices(pageRedactions[1].hiddenText)
          /\ ~Excluded(textItems[j])
          /\ OverlapLen(canvasXOf(textItems[j], viewport),
                        canvasXOf(textItems[j], viewport)
                           + scaledWidthOf(textItems[j], scale),
                        Fine * pageRedactions[1].x,
                        Fine * (pageRedactions[1].x + pageRedactions[1].width))
                > 0

\* C9 (as stated): in every region's hiddenText, of two fragments whose
\* raster y origins differ by less than 5 pixels and whose x differ, the one
\* with the smaller x comes first, however many fragments the region holds.
C9_ReadingOrder ==
    \A k \in Processed :
        LET h == pageRedactions[k].hiddenText
        IN  \A q, u \in DOMAIN h :
                (Abs(h[q].y - h[u].y) < 5 * Fine /\ h[q].x < h[u].x) => q < u

----------------------------------------------------------------------------
(* Claims about detectRedactions *)

\* C10 (as stated): for a buffer holding exactly one solid black rectangle
\* of width >= 20 and height >= 8 pixels on a non-black background,
\* detectRedactions returns exactly one region, whose x, y, width and height
\* are each within 5 pixels of the rectangle's.
C10_DetectsTheBlock ==
    (spc = "detected" /\ block.w >= 20 /\ block.h >= 8) =>
        /\ Len(detected) = 1
        /\ Abs(detected[1].x - block.x) <= 5
        /\ Abs(detected[1].y - block.y) <= 5
        /\ Abs(detected[1].width - block.w) <= 5
        /\ Abs(detected[1].height - block.h) <= 5

\* the same for rectangles at least 21 pixel columns wide and 9 rows high
DetectsLargerBlock ==
    (spc = "detected" /\ block.w >= 21 /\ block.h >= 9) =>
        /\ Len(detected) = 1
        /\ detected[1] = Rect(block.x, block.y, block.w - 1, block.h - 1)

\* C11: every region detectRedactions returns, after merging, is at least 20
\* pixels wide and at least 8 pixels high.
C11_MinSize ==
    spc = "detected" =>
        \A k \in DOMAIN detected :
            detected[k].width >= 20 /\ detected[k].height >= 8

\* two candidates were emitted and merged into one taller region
C11_Witness ==
    /\ spc = "detected"
    /\ Len(scanned) = 2
    /\ Len(detected) = 1
    /\ detected[1].height > scanned[1].height + scanned[2].height

\* the pixel p of img exists and its three channels are below 30
PixelBlack(img, p) ==
    /\ 0 <= p[1] /\ p[1] < img.width
    /\ 0 <= p[2] /\ p[2] < img.height
    /\ p[2] * img.width + p[1] + 1 <= Len(img.data)
    /\ \A c \in 1..3 : img.data[p[2] * img.width + p[1] + 1][c] < 30

\* every second pixel of every second row of the box at (x, y) that spans
\* w columns and h rows beyond its first
Samples(x, y, w, h) ==
    {<<x + 2 * i, y + 2 * j>> : i \in 0..(w \div 2), j \in 0..(h \div 2)}

\* more than 85% of the samples of the box are black
Above85(img, x, y, w, h) ==
    100 * Cardinality({p \in Samples(x, y, w, h) : PixelBlack(img, p)})
        > 85 * Cardinality(Samples(x, y, w, h))

\* the black seeds of the 5-pixel grid
GridSeeds(img) ==
    {p \in (0..(img.width - 1)) \X (0..(img.height - 1)) :
        p[1] % 5 = 0 /\ p[2] % 5 = 0 /\ PixelBlack(img, p)}

\* the box grown from seed p passes the size filter and is at most 85% black
SparseBox(img, p) ==
    LET b == GrowBox(img, p[1], p[2])
    IN  /\ b.maxX - b.minX >= 20
        /\ b.maxY - b.minY >= 8
        /\ ~Above85(img, b.minX, b.minY, b.maxX - b.minX, b.maxY - b.minY)

\* C12: every candidate the scan emitted is more than 85% black over the
\* stride-2 samples of its box, and a box grown from a seed whose sampled
\* density is 85% or less is not among the candidates.
C12_DensityFilter ==
    spc = "detected" =>
        /\ \A k \in DOMAIN scanned :
              Above85(imageData, scanned[k].x, scanned[k].y,
                      scanned[k].width, scanned[k].height)
        /\ \A p \in GridSeeds(imageData) :
              SparseBox(imageData, p) =>
                  LET b == GrowBox(imageData, p[1], p[2])
                  IN  \A k \in DOMAIN scanned :
                          scanned[k] # Rect(b.minX, b.minY, b.maxX - b.minX,
                                            b.maxY - b.minY)

\* a box large enough but too sparse was grown, and nothing was emitted
C12_Witness ==
    /\ spc = "detected"
    /\ scanned = <<>>
    /\ \E p \in GridSeeds(imageData) : SparseBox(imageData, p)

\* every pixel of the buffer has a channel of 30 or more
NoBlackPixel(img) ==
    \A n \in DOMAIN img.data : \E c \in 1..3 : img.data[n][c] >= 30

\* the buffer has width * height pixels, and both are positive
WellFormed(img) ==
    /\ img.width > 0
    /\ img.height > 0
    /\ Len(img.data) = img.width * img.height

\* C13: for a buffer with no black pixel, detectRedactions returns the empty
\* list and throws nothing.
C13_NoBlackNoRegion ==
    (spc = "detected" /\ NoBlackPixel(imageData)) =>
        detected = <<>> /\ scanError = "none"

\* a buffer of the near-black colour (29, 29, 30) was scanned
C13_Witness ==
    /\ spc = "detected"
    /\ WellFormed(imageData)
    /\ NoBlackPixel(imageData)
    /\ \A n \in DOMAIN imageData.data : imageData.data[n] = <<29, 29, 30>>
    /\ detected = <<>>

\* every pixel of the buffer has its three channels below 30
AllBlack(img) ==
    /\ WellFormed(img)
    /\ \A n \in DOMAIN img.data : \A c \in 1..3 : img.data[n][c] < 30

C15_InvalidBufferFails ==
    (spc = "detected" /\ ~WellFormed(imageData)) =>
        scanError = "InvalidBuffer"

\* the source indices assigned to some region of the page
AssignedIndices ==
    UNION {Indices(pageRedactions[k].hiddenText) : k \in DOMAIN pageRedactions}

\* the text box of item i lies within region k's box grown by 1 pixel
DrawnWithin(i, k) ==
    LET left == canvasXOf(textItems[i], viewport)
        bottom == canvasYOf(textItems[i], viewport)
        box == Expand(pageRedactions[k], 1)
    IN  /\ Fine * box.x <= left
        /\ left + scaledWidthOf(textItems[i], scale)
              <= Fine * (box.x + box.width)
        /\ Fine * box.y <= bottom - scaledHeightOf(textItems[i], scale)
        /\ bottom <= Fine * (box.y + box.height)

\* the set drawn is the set assigned, each fragment inside its region's box
DrawnAsAssigned(drawn) ==
    /\ drawn = AssignedIndices
    /\ \A i \in drawn : \A k \in DOMAIN pageRedactions :
          i \in Indices(pageRedactions[k].hiddenText) => DrawnWithin(i, k)

\* C19 (as stated): the fragments drawn by the export and by the fixed-pane
\* text layer are exactly the fragments assigned to the page's regions'
\* hiddenText, each drawn inside its region's box expanded by 1 pixel.
C19_DrawnIsAssigned ==
    /\ "export" \in rendered => DrawnAsAssigned(drawnExport)
    /\ "layer" \in rendered => DrawnAsAssigned(drawnLayer)

\* the half that does hold: every assigned fragment is drawn by both renderers
AssignedIsDrawn ==
    /\ "export" \in rendered => AssignedIndices \subseteq drawnExport
    /\ "layer" \in rendered => AssignedIndices \subseteq drawnLayer

----------------------------------------------------------------------------
(* Claims about loadPdf *)

\* the page list and the redaction list call c resolved with, as they are now
ResultPages(c) == pageArrays[callResult[c].pages]

ResultRedactions(c) == redactionArrays[callResult[c].redactions]

\* C16 (as stated): a page whose analysis fails is that page's result only:
\* the call does not fail, and the other pages of its file are in the page
\* list it resolves with.
C16_PageFailureIsLocal ==
    \A c \in Calls :
        /\ lpc[c] # "rejected"
        /\ lpc[c] = "resolved" =>
              \A p \in 1..numPages[callFile[c]] :
                  <<callFile[c], p>> \notin failing =>
                      \E k \in DOMAIN ResultPages(c) :
                          /\ ResultPages(c)[k].file = callFile[c]
                          /\ ResultPages(c)[k].number = p

\* the result of call c is the pages 1..numPages of its file, in this order,
\* and the regions of these pages only
OwnResult(c) ==
    /\ callResult[c].numPages = numPages[callFile[c]]
    /\ Len(ResultPages(c)) = numPages[callFile[c]]
    /\ \A k \in DOMAIN ResultPages(c) :
          /\ ResultPages(c)[k].pageNum = k
          /\ ResultPages(c)[k].file = callFile[c]
          /\ ResultPages(c)[k].number = k
    /\ \A k \in DOMAIN ResultRedactions(c) :
          /\ ResultRedactions(c)[k].file = callFile[c]
          /\ ResultRedactions(c)[k].number = ResultRedactions(c)[k].page

\* C17 (as stated): whatever the overlap of loadPdf calls on one
\* PDFProcessor, each call resolves with exactly its own file's pages
\* 1..numPages and only that file's redactions.
C17_OwnPagesOnly ==
    \A c \in Calls : lpc[c] = "resolved" => OwnResult(c)

\* C18 (as stated): the redaction list a loadPdf call resolved with is in
\* non-decreasing page order and its page list holds pageNum 1..numPages in
\* ascending order.
C18_PageOrder ==
    \A c \in Calls : lpc[c] = "resolved" =>
        /\ \A j, k \in DOMAIN ResultRedactions(c) :
              j < k => ResultRedactions(c)[j].page <= ResultRedactions(c)[k].page
        /\ Len(ResultPages(c)) = callResult[c].numPages
        /\ \A k \in DOMAIN ResultPages(c) : ResultPages(c)[k].pageNum = k

\* a call that resolved before any other call was made resolved with its own
\* result
SoloCallOwnResult ==
    \A c \in Calls :
        (lpc[c] = "resolved" /\ \A d \in Calls \ {c} : lpc[d] = "idle")
            => OwnResult(c)

----------------------------------------------------------------------------
(* Claims about the handlers *)

\* C20 (as stated): a document is marked Fixed only if a PDF made of that
\* document's pages has been saved under the name derived from that
\* document's file name.
C20_FixedMeansSaved ==
    \A d \in DOMAIN documents :
        documents[d].isFixed =>
            \E s \in saved :
                /\ s.name = fixedName(documents[d].name)
                /\ s.pages # <<>>
                /\ \A k \in DOMAIN s.pages : s.pages[k].file = documents[d].file

\* after two uploads that each resolved with its own pages, the first
\* document was selected and downloaded: it is marked Fixed, the one file
\* saved holds the second's pages under the second's name
SelectedThenDownloaded ==
    /\ \A c \in Calls : lpc[c] = "done" /\ callKind[c] = "upload"
    /\ DOMAIN documents = Calls
    /\ \A c \in Calls : OwnResult(c)
    /\ documents[1].name # documents[2].name
    /\ documents[1].isFixed
    /\ ~documents[2].isFixed
    /\ saved = {[name |-> fixedName(documents[2].name),
                 pages |-> pageArrays[documents[2].pages]]}

----------------------------------------------------------------------------
(* Further claims about findTextInArea *)

\* the regions of the page whose rule the fragment satisfies
Fitting(item) ==
    {k \in DOMAIN pageRedactions : AssignRule(item, pageRedactions[k])}

\* C23: a fragment that satisfies the assignment rule for more than one
\* region of a page is assigned to the first such region in list order and
\* to no later region.
C23_FirstRegionWins ==
    tpc = "done" =>
        \A i \in DOMAIN textItems :
            (~Excluded(textItems[i]) /\ Cardinality(Fitting(textItems[i])) > 1)
            => \A k \in DOMAIN pageRedactions :
                  i \in Indices(pageRedactions[k].hiddenText)
                      <=> (k \in Fitting(textItems[i])
                           /\ \A m \in Fitting(textItems[i]) : k <= m)

\* C23 witness: the page is done and a fragment that satisfies the rule for
\* two regions is in the hiddenText of the first of them
C23_Witness ==
    /\ tpc = "done"
    /\ \E i \in DOMAIN textItems :
          /\ ~Excluded(textItems[i])
          /\ Cardinality(Fitting(textItems[i])) > 1
          /\ \E k \in Fitting(textItems[i]) :
                /\ \A m \in Fitting(textItems[i]) : k <= m
                /\ pageRedactions[k].hiddenText # <<>>
                /\ i \in Indices(pageRedactions[k].hiddenText)

----------------------------------------------------------------------------
(* Further claims about detectRedactions *)

\* the coordinates of the 5-pixel grid inside the box b
GridInside(b) ==
    {p \in (b.minX..b.maxX) \X (b.minY..b.maxY) : p[1] % 5 = 0 /\ p[2] % 5 = 0}

\* every grid coordinate inside a box grown from a black grid seed is visited
GridMarked ==
    \A p \in GridSeeds(imageData) :
        GridInside(GrowBox(imageData, p[1], p[2])) \subseteq visited

\* no box was pushed twice by the scan
DetectedOnce ==
    \A j, k \in DOMAIN scanned : scanned[j] = scanned[k] => j = k

\* C22 (as stated): once a seed's box is grown, every grid-aligned
\* coordinate inside it is marked visited, so that no later seed inside the
\* box starts another detection of the same block.
C22_GridVisited ==
    spc = "detected" => GridMarked /\ DetectedOnce

\* the fraction q is the number of raster pixels v divided by the scale
\* factor, scale / 4
IsOverScale(q, v) == q.num * scale = 4 * v * q.den

\* C24: every region detectRedactions returns, merged or not, has pdfX = x/S,
\* pdfY = y/S, pdfWidth = width/S and pdfHeight = height/S.
C24_PdfBoxIsRasterOverScale ==
    spc = "detected" =>
        \A k \in DOMAIN detected :
            /\ IsOverScale(detected[k].pdfX, detected[k].x)
            /\ IsOverScale(detected[k].pdfY, detected[k].y)
            /\ IsOverScale(detected[k].pdfWidth, detected[k].width)
            /\ IsOverScale(detected[k].pdfHeight, detected[k].height)

\* a region that absorbed a candidate and is taller than that candidate's
\* document-space height says
C24_Witness ==
    /\ spc = "detected"
    /\ Len(scanned) = 2
    /\ Len(detected) = 1
    /\ scanned[1].y # scanned[2].y
    /\ ~IsOverScale(scanned[1].pdfHeight, detected[1].height)
    /\ ~IsOverScale(scanned[2].pdfY, detected[1].y)

----------------------------------------------------------------------------
(* Claims about text items with non-finite transform entries *)

\* the item's transform has a NaN or an infinite scale or translation entry
NonFinite(item) ==
    \E k \in {1, 4, 5, 6} : NonFiniteAt(item, k) # "finite"

HeldBySomeRegion(i) ==
    \E k \in DOMAIN pageRedactions : i \in Indices(pageRedactions[k].hiddenText)

\* C25: a fragment whose transform holds a non-finite value (NaN, +Infinity
\* or -Infinity in a scale or translation entry) is never assigned to any
\* region.
C25_NonFiniteNeverAssigned ==
    \A i \in DOMAIN textItems : NonFinite(textItems[i]) => ~HeldBySomeRegion(i)

\* what holds instead: the fragments left out are those whose scaleX is
\* infinite or whose translation is not finite
UnplaceableNeverAssigned ==
    \A i \in DOMAIN textItems : Unplaceable(textItems[i]) => ~HeldBySomeRegion(i)

\* a fragment with scaleX = NaN or a non-finite scaleY is assigned like any
\* other once the page is done
NaNScaleAssigned ==
    tpc = "done" =>
        \A i \in DOMAIN textItems :
            (NonFinite(textItems[i]) /\ ~Unplaceable(textItems[i]))
                => HeldBySomeRegion(i)

----------------------------------------------------------------------------
(* Claims about a page that fails *)

\* a region of page pg is in a document-wide list
HasRegions(pg) ==
    \E a \in ArrayIds : \E k \in DOMAIN redactionArrays[a] :
        /\ redactionArrays[a][k].file = pg[1]
        /\ redactionArrays[a][k].number = pg[2]

\* C26: when processPage fails at any step, none of that page's regions is
\* in the document-wide list; a page's regions are in it only once its scan,
\* merge and association have completed.
C26_AllOrNothing ==
    /\ \A pg \in failing : ~HasRegions(pg)
    /\ \A f \in Files : \A p \in 1..MaxPages :
          HasRegions(<<f, p>>)
              => \E a \in ArrayIds : \E k \in DOMAIN pageArrays[a] :
                    /\ pageArrays[a][k].file = f
                    /\ pageArrays[a][k].number = p

\* C26 witness: the second page of a document failed after its render, the
\* call was rejected, and the list holds the regions of the first page only
C26_Witness ==
    /\ lpc[1] = "rejected"
    /\ failStep = "tail"
    /\ callI[1] = 2
    /\ callPage[1] \in failing
    /\ Len(redactionArrays[1]) = 1
    /\ redactionArrays[1][1].number = 1

----------------------------------------------------------------------------
(* Claims about the scale of a page *)

Last(s) == s[Len(s)]

\* call c runs the rest of processPage and the page is added
PageAdded(c) ==
    /\ lpc[c] = "text"
    /\ lpc'[c] \in {"getPage", "resolved"}

\* C29: within one processPage call the scale the viewport was made with is
\* the scale the regions' document-space boxes and the fragments' raster
\* sizes are computed with, also when setScale is called while the page
\* awaits its render or its text.
C29_OneScalePerPage ==
    [][ \A c \in Calls :
           PageAdded(c) =>
              Last(redactionArrays'[thisRedactions]).scale
                  = Last(pageArrays'[thisPages]).scale ]_vars

----------------------------------------------------------------------------
(* Claims about the "Jump to" buttons *)

\* the highlight overlay of the region a jump button was made for: same
\* page, same box
OwnHighlight(item) ==
    {h \in highlights : h.page = item.page /\ h.x = item.x /\ h.y = item.y}

\* C27: a click on the "Jump to" button of a diff-view entry activates the
\* highlight overlay of that same redaction, and no other, for every
\* redaction of a document of several pages.
C27_JumpHitsOwnHighlight ==
    clicked # 0 =>
        /\ OwnHighlight(diffItems[clicked]) # {}
        /\ active = OwnHighlight(diffItems[clicked])

\* the jump works for the regions that no region of an earlier page precedes
\* in doc.redactions
JumpHitsWhenIndicesAgree ==
    (clicked # 0 /\ \A k \in 1..clicked : diffItems[k].page = diffItems[clicked].page)
        => active = OwnHighlight(diffItems[clicked])

----------------------------------------------------------------------------
(* Claims about a whole page *)

\* the raster box of the fragment lies inside the block's pixels
FragmentInside(item, b) ==
    /\ Fine * b.x <= canvasXOf(item, viewport)
    /\ canvasXOf(item, viewport) + scaledWidthOf(item, scale)
          <= Fine * (b.x + b.w)
    /\ Fine * b.y <= canvasYOf(item, viewport) - scaledHeightOf(item, scale)
    /\ canvasYOf(item, viewport) <= Fine * (b.y + b.h)

\* the texts of a hiddenText list
Texts(hiddenText) == [q \in DOMAIN hiddenText |-> hiddenText[q].text]

\* C21: end to end, a page whose raster holds one solid black rectangle (of
\* the minimum size at least) and whose text holds one fragment inside it
\* and a "1111" fragment at the same place yields exactly one region, with
\* the rectangle's box (each of x, y, width, height within 5 pixels) and a
\* hiddenText holding the fragment only.
C21_EndToEnd ==
    (/\ tpc = "done"
     /\ block.w >= 20
     /\ block.h >= 8
     /\ \A i \in DOMAIN textItems : FragmentInside(textItems[i], block))
    => /\ Len(pageRedactions) = 1
       /\ Abs(pageRedactions[1].x - block.x) <= 5
       /\ Abs(pageRedactions[1].y - block.y) <= 5
       /\ Abs(pageRedactions[1].width - block.w) <= 5
       /\ Abs(pageRedactions[1].height - block.h) <= 5
       /\ Texts(pageRedactions[1].hiddenText) = <<Secret.str>>

\* the same for rectangles at least 21 pixel columns wide and 9 rows high
EndToEndLargerBlock ==
    (/\ tpc = "done"
     /\ block.w >= 21
     /\ block.h >= 9
     /\ \A i \in DOMAIN textItems : FragmentInside(textItems[i], block))
    => /\ Len(pageRedactions) = 1
       /\ pageRedactions[1].x = block.x
       /\ pageRedactions[1].y = block.y
       /\ pageRedactions[1].width = block.w - 1
       /\ pageRedactions[1].height = block.h - 1
       /\ Texts(pageRedactions[1].hiddenText) = <<Secret.str>>

\* a page with such a rectangle and both fragments inside it is done
EndToEndCase ==
    /\ tpc = "done"
    /\ block.w >= 21
    /\ block.h >= 9
    /\ \A i \in DOMAIN textItems : FragmentInside(textItems[i], block)
    /\ pageRedactions # <<>>

\* the colour of pixel (px, py) of a raster
PixelAt(img, px, py) == img.data[py * img.width + px + 1]

\* the pixels of the canvas in the columns x1..x2 of the rows y1..y2
PixelsIn(img, x1, x2, y1, y2) ==
    {p \in (x1..x2) \X (y1..y2) :
        0 <= p[1] /\ p[1] < img.width /\ 0 <= p[2] /\ p[2] < img.height}

\* C28: in the fixed raster every pixel of each region's box expanded by one
\* pixel on each side (the pixel columns x - 1 .. x + width of the rows
\* y - 1 .. y + height) has the erase colour, so no pixel of a detected
\* block (columns minX..maxX, rows minY..maxY) stays black; the original
\* raster is unchanged.
C28_BlocksErased ==
    tpc = "done" =>
        /\ \A k \in DOMAIN pageRedactions :
              LET r == pageRedactions[k]
              IN  \A p \in PixelsIn(fixedCanvas, r.x - 1, r.x + r.width,
                                    r.y - 1, r.y + r.height) :
                      PixelAt(fixedCanvas, p[1], p[2]) = EraseColour
        /\ \A j \in DOMAIN scanned :
              \A p \in PixelsIn(fixedCanvas,
                                scanned[j].x, scanned[j].x + scanned[j].width,
                                scanned[j].y, scanned[j].y + scanned[j].height) :
                  ~isBlack(fixedCanvas, p[1], p[2])
        /\ originalCanvas = imageData
        /\ fixedCanvas.width = originalCanvas.width
        /\ fixedCanvas.height = originalCanvas.height

\* C28 witness: the page is done with one region on a grey page; the
\* region's pixels are still black in the original and white in the fixed
\* raster, and the pixel two columns right of the block is grey in both
C28_Witness ==
    /\ tpc = "done"
    /\ Len(pageRedactions) = 1
    /\ LET r == pageRedactions[1]
       IN  /\ isBlack(originalCanvas, r.x, r.y)
           /\ isBlack(originalCanvas, r.x + r.width, r.y + r.height)
           /\ PixelAt(fixedCanvas, r.x + r.width, r.y + r.height) = EraseColour
           /\ PixelAt(fixedCanvas, r.x + r.width + 2, r.y) = <<90, 90, 90>>
           /\ PixelAt(originalCanvas, r.x + r.width + 2, r.y) = <<90, 90, 90>>

====
